---------------------------- MODULE Spec2Model ----------------------------
(***************************************************************************)
(* A model of the PARA memory fact store: scripts/memory_checkpoint.py     *)
(* (entity creation, fact append with supersession, cross references,      *)
(* access bumping, the access log) and scripts/memory-decay.py (hydration  *)
(* of access metadata from the access log, the decay cycles).              *)
(*                                                                         *)
(* The file system below para_dir is the function `docs` from entity       *)
(* directories (sequences of path components) to the parsed facts.json in  *)
(* them; the cache's access-log.json is the function `log`.  Strings are   *)
(* TLA+ strings and the string operations of the code (slugify, the id     *)
(* format, rstrip) are computed character by character.  Dates are day     *)
(* numbers: the code writes them as YYYY-MM-DD, which orders as the days   *)
(* do.  A summary.md is the record of what its lines show.                 *)
(***************************************************************************)
EXTENDS Integers, Sequences, FiniteSets, TLC

VARIABLES
    docs,     \* entity directory -> contents of its facts.json
    log,      \* access-log.json: "<entity>:<fact id>" -> entry
    now,      \* the clock: today's date as a day number
    last,     \* history: the operation that made the last step, its result
    pc,       \* per invocation: where it stands in its operation
    loc,      \* per invocation: its arguments and the data it has read
    ops,      \* history: the number of operations started so far
    sums,     \* entity directory -> contents of its summary.md
    notes     \* the daily notes: the entries appended, with their day

vars == <<docs, log, now, last, pc, loc, ops, sums, notes>>

-----------------------------------------------------------------------------
(* Bounds of the model. *)

MaxSteps == 4      \* Spec: operations (and clock ticks) in a run
MaxConcOps == 3    \* SpecConc: operations the invocations start in a run
MaxXrefSteps == 4  \* SpecXref: operations in a run
MaxDecaySteps == 3 \* SpecDecay: operations (and clock ticks) in a run
MaxCheckpointSteps == 3 \* SpecCheckpoint: checkpoints (and clock ticks) in a run
MaxSummarySteps == 3    \* SpecSummary: operations in a run

-----------------------------------------------------------------------------
(* Strings, as the code handles them. *)

None == "null"

Min(a, b) == IF a < b THEN a ELSE b

Upper == "ABCDEFGHIJKLMNOPQRSTUVWXYZ"
LowerAlpha == "abcdefghijklmnopqrstuvwxyz"
Digits == "0123456789"
Whitespace == " "

RECURSIVE IndexOf(_, _)
\* 1-based position of the character c in s, 0 when absent.
IndexOf(c, s) ==
    IF s = "" THEN 0
    ELSE IF Head(s) = c THEN 1
    ELSE LET i == IndexOf(c, Tail(s)) IN IF i = 0 THEN 0 ELSE i + 1

Contains(s, c) == IndexOf(c, s) # 0

\* str.lower() on one character.
LowerChar(c) ==
    LET i == IndexOf(c, Upper) IN IF i = 0 THEN c ELSE SubSeq(LowerAlpha, i, i)

RECURSIVE Lower(_)
Lower(s) == IF s = "" THEN "" ELSE LowerChar(Head(s)) \o Lower(Tail(s))

RECURSIVE LStrip(_, _)
LStrip(s, chars) ==
    IF s # "" /\ Contains(chars, Head(s)) THEN LStrip(Tail(s), chars) ELSE s

RECURSIVE RStrip(_, _)
\* str.rstrip(chars): drops every trailing character that is in chars.
RStrip(s, chars) ==
    IF s # "" /\ Contains(chars, SubSeq(s, Len(s), Len(s)))
    THEN RStrip(SubSeq(s, 1, Len(s) - 1), chars)
    ELSE s

Strip(s, chars) == RStrip(LStrip(s, chars), chars)

RECURSIVE ReplaceAmp(_)
\* s.replace("&", " and ")
ReplaceAmp(s) ==
    IF s = "" THEN ""
    ELSE (IF Head(s) = "&" THEN " and " ELSE Head(s)) \o ReplaceAmp(Tail(s))

IsSlugChar(c) == Contains(LowerAlpha, c) \/ Contains(Digits, c)

RECURSIVE SubNonSlug(_, _)
\* re.sub(r"[^a-z0-9]+", "-", s); inRun: the previous character was replaced.
SubNonSlug(s, inRun) ==
    IF s = "" THEN ""
    ELSE IF IsSlugChar(Head(s)) THEN Head(s) \o SubNonSlug(Tail(s), FALSE)
    ELSE (IF inRun THEN "" ELSE "-") \o SubNonSlug(Tail(s), TRUE)

RECURSIVE SubDashes(_, _)
\* re.sub(r"-+", "-", s)
SubDashes(s, inRun) ==
    IF s = "" THEN ""
    ELSE IF Head(s) # "-" THEN Head(s) \o SubDashes(Tail(s), FALSE)
    ELSE (IF inRun THEN "" ELSE "-") \o SubDashes(Tail(s), TRUE)

slugify(name) ==
    LET s1 == Lower(Strip(name, Whitespace))
        s2 == ReplaceAmp(s1)
        s3 == SubNonSlug(s2, FALSE)
        s4 == Strip(SubDashes(s3, FALSE), "-")
    IN  IF s4 = "" THEN "unnamed" ELSE s4

RECURSIVE Split(_, _)
\* str.split(sep) for a one-character separator: the sequence of the parts.
Split(s, sep) ==
    LET i == IndexOf(sep, s)
    IN  IF i = 0 THEN <<s>>
        ELSE <<SubSeq(s, 1, i - 1)>> \o Split(SubSeq(s, i + 1, Len(s)), sep)

RECURSIVE Decimal(_)
\* str(n) for n >= 0
Decimal(n) ==
    IF n < 10 THEN SubSeq(Digits, n + 1, n + 1)
    ELSE Decimal(n \div 10) \o SubSeq(Digits, (n % 10) + 1, (n % 10) + 1)

RECURSIVE ZeroPad(_, _)
\* the format ":0<w>d": zeros on the left up to width w, never a cut
ZeroPad(s, w) == IF Len(s) >= w THEN s ELSE ZeroPad("0" \o s, w)

\* A variant of the id format without the zero padding: f"{entity_name[:3]}-{n}".
FormatIdUnpadded(entity_name, n) ==
    SubSeq(entity_name, 1, Min(3, Len(entity_name))) \o "-" \o Decimal(n)

\* f"{entity_name[:3]}-{n:03d}"
FormatId(entity_name, n) ==
    SubSeq(entity_name, 1, Min(3, Len(entity_name))) \o "-" \o ZeroPad(Decimal(n), 3)

\* str.upper() on one character.
UpperChar(c) ==
    LET i == IndexOf(c, LowerAlpha) IN IF i = 0 THEN c ELSE SubSeq(Upper, i, i)

IsLetter(c) == Contains(LowerAlpha, c) \/ Contains(Upper, c)

RECURSIVE TitleCase(_, _)
\* str.title(): a letter that follows a letter is lowered, any other letter
\* is raised; inWord: the previous character was a letter.
TitleCase(s, inWord) ==
    IF s = "" THEN ""
    ELSE (IF inWord THEN LowerChar(Head(s)) ELSE UpperChar(Head(s)))
            \o TitleCase(Tail(s), IsLetter(Head(s)))

RECURSIVE ReplaceDash(_)
\* s.replace("-", " ")
ReplaceDash(s) ==
    IF s = "" THEN ""
    ELSE (IF Head(s) = "-" THEN " " ELSE Head(s)) \o ReplaceDash(Tail(s))

\* entity_name.replace("-", " ").title()
Title(entity_name) == TitleCase(ReplaceDash(entity_name), FALSE)

\* f"{entity_name}:{fact_id}"
LogKey(entity_name, fact_id) == entity_name \o ":" \o fact_id

-----------------------------------------------------------------------------
(* What the operations are called with. *)

\* The entity whose document the operations work on, and the entities whose
\* facts name it as related (the sources of cross references).
EntityInputs == {<<"companies", "Acme Co">>}
SourceInputs == {<<"projects", "apollo">>}

FactInputs ==
    {[content |-> "signed contract", category |-> "milestone",
      relatedEntities |-> <<>>],
     [content |-> "signed contract", category |-> "status",
      relatedEntities |-> <<>>],
     [content |-> "runs apollo", category |-> "relationship",
      relatedEntities |-> <<"projects/apollo">>]}

RelatedInputs ==
    {<<"projects/apollo">>, <<"projects/apollo", "areas/companies/acme-co">>}

ReasonInputs == {"mentioned 3 times"}

\* SpecXref: entities of the four collections, their facts, and the related
\* paths propagated; "areas/people/ghost" names an entity that is never
\* created.
XrefEntities ==
    {<<"people", "tara">>, <<"companies", "Acme Co">>,
     <<"projects", "apollo">>, <<"resources", "tla">>}

XrefFacts ==
    {[content |-> "met in 2020", category |-> "relationship",
      relatedEntities |-> <<>>],
     [content |-> "moved to Berlin", category |-> "status",
      relatedEntities |-> <<>>]}

XrefRelated ==
    {<<"areas/people/tara">>, <<"projects/apollo">>, <<"resources/tla">>,
     <<"areas/people/ghost", "areas/companies/acme-co">>}

\* The strings the operations below compute on, and the results of the
\* string functions on them, computed once.
RelatedPaths ==
    UNION {{r[i] : i \in 1..Len(r)} :
            r \in RelatedInputs \cup XrefRelated
                    \cup {f.relatedEntities : f \in FactInputs}}
NameInputs ==
    {e[2] : e \in EntityInputs \cup SourceInputs \cup XrefEntities}
        \cup {Split(r, "/")[Len(Split(r, "/"))] : r \in RelatedPaths}
Names == NameInputs \cup {slugify(n) : n \in NameInputs}

SlugTable == [n \in Names |-> slugify(n)]
Slug(name) == SlugTable[name]

TitleTable == [n \in Names |-> Title(n)]
TitleOf(entity_name) == TitleTable[entity_name]

IdTable == [n \in Names, k \in 1..(MaxSteps + MaxConcOps + 2) |-> FormatId(n, k)]
FactId(entity_name, n) == IdTable[entity_name, n]

-----------------------------------------------------------------------------
(* JSON objects are functions from keys to values; a key may be absent. *)

\* dict.get(key, default)
Get(d, key, default) == IF key \in DOMAIN d THEN d[key] ELSE default

\* d[key] = value
Put(d, key, value) ==
    [k \in DOMAIN d \cup {key} |-> IF k = key THEN value ELSE d[k]]

\* Python's truth value of an optional string: None and "" are false.
Truthy(s) == s # None /\ s # ""

InSeq(x, s) == \E i \in 1..Len(s) : s[i] = x

-----------------------------------------------------------------------------
(* memory_checkpoint.py: paths and entity creation. *)

AreaTypes == {"people", "companies"}

entity_path_for(entity_type, entity_name) ==
    LET name == Slug(entity_name)
    IN  IF entity_type \in AreaTypes
        THEN <<"areas", entity_type, name>>
        ELSE <<entity_type, name>>

\* facts_file.exists()
Exists(fs, path) == path \in DOMAIN fs

AutoReason == "Auto-created for fact storage"

\* The document create_entity writes.  The facts' and the document's
\* write-only fields (a fact's "created" and "source") are left out: neither
\* script reads them.
NewDocument(entity_name, entity_type, reason, today) ==
    [entity |-> entity_name, entity_type |-> entity_type,
     created |-> today, lastUpdated |-> today,
     createdReason |-> reason, facts |-> <<>>]

\* The summary.md create_entity writes (line 283): the title, the day and
\* the reason, which is shown even when it is empty.
InitialSummary(entity_name, reason, today) ==
    [kind |-> "created", title |-> TitleOf(entity_name),
     created |-> today, reason |-> reason]

\* create_entity, lines 280-283, on the summaries sm: the summaries it leaves.
create_entity_summary(sm, entity_type, entity_name, reason, today) ==
    LET name == Slug(entity_name)
        path == entity_path_for(entity_type, name)
    IN  IF path \in DOMAIN sm THEN sm
        ELSE sm @@ (path :> InitialSummary(name, reason, today))

\* A variant of create_entity without the test of line 287: it writes the new
\* document over the one that exists.
create_entity_overwriting(fs, entity_type, entity_name, reason, today) ==
    LET name == Slug(entity_name)
        path == entity_path_for(entity_type, name)
    IN  Put(fs, path, NewDocument(name, entity_type, reason, today))

\* create_entity, on the file system fs: the file system it leaves.
create_entity(fs, entity_type, entity_name, reason, today) ==
    LET name == Slug(entity_name)
        path == entity_path_for(entity_type, name)
    IN  IF Exists(fs, path) THEN fs
        ELSE fs @@ (path :> NewDocument(name, entity_type, reason, today))

-----------------------------------------------------------------------------
(* memory_checkpoint.py: append_fact_to_entity, on the document it read. *)

\* The fact appended (lines 324-342).  `supersedes` is not a field of the
\* file: it is history, the supersedes_id the fact was appended with.
NewFact(new_id, fact, supersedes_id, today) ==
    [id |-> new_id,
     fact |-> Get(fact, "content", ""),
     category |-> Get(fact, "category", "context"),
     status |-> "active",
     lastAccessed |-> today,
     accessCount |-> 1,
     relatedEntities |-> Get(fact, "relatedEntities", <<>>),
     supersededBy |-> IF Truthy(supersedes_id) THEN supersedes_id ELSE None,
     supersedes |-> IF Truthy(supersedes_id) THEN supersedes_id ELSE None]

\* A variant of lines 345-351 that marks no fact.
MarkNothing(facts, supersedes_id, new_id) == facts

\* Lines 345-351: the first active fact whose id is supersedes_id is marked.
MarkSuperseded(facts, supersedes_id, new_id) ==
    LET hits == {i \in 1..Len(facts) :
                    /\ Get(facts[i], "id", None) = supersedes_id
                    /\ Get(facts[i], "status", None) = "active"}
    IN  IF ~Truthy(supersedes_id) \/ hits = {} THEN facts
        ELSE LET first == CHOOSE i \in hits : \A j \in hits : i <= j
             IN  [facts EXCEPT ![first] =
                    Put(Put(@, "status", "superseded"), "supersededBy", new_id)]

\* A variant of the duplicate test that looks at the active facts only.
IsDuplicateOfActive(data, fact) ==
    \E i \in 1..Len(data.facts) :
        /\ Get(data.facts[i], "status", None) = "active"
        /\ Get(data.facts[i], "fact", "") = Get(fact, "content", None)

\* Lines 318-319: the duplicate test.
IsDuplicate(data, fact) ==
    \E i \in 1..Len(data.facts) :
        Get(data.facts[i], "fact", "") = Get(fact, "content", None)

\* Lines 313-359 on the document `data` read at line 311: the document to
\* write (written: whether line 356 is reached) and the value returned
\* (<<>> for None, <<new_fact>> otherwise).
AppendToData(data, entity_name, fact, supersedes_id, today) ==
    LET new_id == FactId(entity_name, Len(data.facts) + 1)
        new_fact == NewFact(new_id, fact, supersedes_id, today)
    IN  IF IsDuplicate(data, fact)
        THEN [written |-> FALSE, data |-> data, ret |-> <<>>]
        ELSE [written |-> TRUE,
              data |-> [data EXCEPT
                  !.facts = Append(MarkSuperseded(data.facts, supersedes_id, new_id),
                                   new_fact),
                  !.lastUpdated = today],
              ret |-> <<new_fact>>]

-----------------------------------------------------------------------------
(* memory_checkpoint.py: update_entity_cross_references. *)

\* Lines 387-390.  entity_name is used as given, not as a slug.
BackRef(entity_type, entity_name) ==
    IF entity_type \in AreaTypes
    THEN "areas/" \o entity_type \o "/" \o entity_name
    ELSE entity_type \o "/" \o entity_name

\* Lines 367-381: the directory a related path resolves to, <<>> when the loop
\* skips the path.
ResolveRef(rel_path) ==
    LET parts == Split(rel_path, "/")
        ref_type == parts[1]
        ref_entity == parts[Len(parts)]
    IN  IF Len(parts) < 2 THEN <<>>
        ELSE IF ref_type = "areas"
             THEN IF Len(parts) >= 3
                  THEN entity_path_for(parts[2], ref_entity)
                  ELSE <<>>
             ELSE entity_path_for(RStrip(ref_type, "s"), ref_entity)

RefTable == [r \in RelatedPaths |-> ResolveRef(r)]
RefPath(rel_path) == RefTable[rel_path]

\* A variant of lines 392-397 without the test of line 395.
CrossRefDataAlways(data, back_ref) ==
    [data EXCEPT !.facts =
        [i \in 1..Len(data.facts) |->
            LET f == data.facts[i]
            IN  IF Get(f, "status", None) = "active"
                THEN Put(f, "relatedEntities",
                         Append(Get(f, "relatedEntities", <<>>), back_ref))
                ELSE f]]

\* A variant of lines 392-397 without the test of line 393: the superseded
\* facts are given the back reference too.
CrossRefDataEveryFact(data, back_ref) ==
    [data EXCEPT !.facts =
        [i \in 1..Len(data.facts) |->
            LET f == data.facts[i]
                current_rels == Get(f, "relatedEntities", <<>>)
            IN  IF ~InSeq(back_ref, current_rels)
                THEN Put(f, "relatedEntities", Append(current_rels, back_ref))
                ELSE f]]

\* Lines 392-397 on the document read at line 385.
CrossRefData(data, back_ref) ==
    [data EXCEPT !.facts =
        [i \in 1..Len(data.facts) |->
            LET f == data.facts[i]
                current_rels == Get(f, "relatedEntities", <<>>)
            IN  IF Get(f, "status", None) = "active" /\ ~InSeq(back_ref, current_rels)
                THEN Put(f, "relatedEntities", Append(current_rels, back_ref))
                ELSE f]]

RECURSIVE CrossRefsUntilMiss(_, _, _)
\* A variant of the loop of line 366 that ends at the first related path
\* without a document.
CrossRefsUntilMiss(fs, back_ref, related_entities) ==
    IF related_entities = <<>> THEN fs
    ELSE LET ref_path == RefPath(Head(related_entities))
         IN  IF ref_path # <<>> /\ Exists(fs, ref_path)
             THEN CrossRefsUntilMiss([fs EXCEPT ![ref_path] = CrossRefData(@, back_ref)],
                                     back_ref, Tail(related_entities))
             ELSE fs

RECURSIVE CrossRefs(_, _, _)
\* The loop of line 366 over related_entities, on the file system fs.
CrossRefs(fs, back_ref, related_entities) ==
    IF related_entities = <<>> THEN fs
    ELSE LET ref_path == RefPath(Head(related_entities))
             fs1 == IF ref_path # <<>> /\ Exists(fs, ref_path)
                    THEN [fs EXCEPT ![ref_path] = CrossRefData(@, back_ref)]
                    ELSE fs
         IN  CrossRefs(fs1, back_ref, Tail(related_entities))

update_entity_cross_references(fs, entity_type, entity_name, related_entities) ==
    CrossRefs(fs, BackRef(entity_type, entity_name), related_entities)

-----------------------------------------------------------------------------
(* memory_checkpoint.py: bump_access_metadata and update_access_log;       *)
(* memory-decay.py: record_access.                                         *)

\* fact_ids is None (given = FALSE) or a collection of ids.
AllFacts == [given |-> FALSE, ids |-> {}]
TheseFacts(ids) == [given |-> TRUE, ids |-> ids]

\* Line 419.
Selected(f, fact_ids) == ~fact_ids.given \/ Get(f, "id", None) \in fact_ids.ids

\* Lines 418-422 on the document read at line 413.
BumpData(data, fact_ids, today) ==
    [data EXCEPT !.facts =
        [i \in 1..Len(data.facts) |->
            LET f == data.facts[i]
            IN  IF Selected(f, fact_ids)
                THEN Put(Put(f, "lastAccessed", today),
                         "accessCount", Get(f, "accessCount", 0) + 1)
                ELSE f]]

\* The value bump_access_metadata returns for a document that exists.
Bumped(data, fact_ids) ==
    Cardinality({i \in 1..Len(data.facts) : Selected(data.facts[i], fact_ids)})

\* Line 427: the ids handed to update_access_log.
BumpLogIds(data) == [i \in 1..Len(data.facts) |-> data.facts[i].id]

\* Lines 447-450 (and record_access lines 64-68) for one key.
BumpEntry(lg, key, today) ==
    LET entry == IF key \in DOMAIN lg THEN lg[key]
                 ELSE [accessCount |-> 0, lastAccessed |-> today]
    IN  Put(lg, key, [accessCount |-> entry.accessCount + 1, lastAccessed |-> today])

RECURSIVE BumpEntries(_, _, _, _)
BumpEntries(lg, entity_name, fact_ids, today) ==
    IF fact_ids = <<>> THEN lg
    ELSE BumpEntries(BumpEntry(lg, LogKey(entity_name, Head(fact_ids)), today),
                     entity_name, Tail(fact_ids), today)

\* update_access_log on the log read at line 440: the log written at 452.
update_access_log(lg, entity_name, fact_ids, today) ==
    BumpEntries(lg, Slug(entity_name), fact_ids, today)

\* record_access on the log it loaded: the log it saves.
record_access(lg, entity_id, fact_id, today) ==
    BumpEntry(lg, LogKey(entity_id, fact_id), today)

-----------------------------------------------------------------------------
(* memory-decay.py: update_entity_facts and the decay cycles. *)

\* A variant of lines 119-129 that takes the statistics from the log whether
\* or not the fact carries its own.
HydrateFromLog(f, data, access_log, entity_name) ==
    LET key == LogKey(entity_name, Get(f, "id", ""))
    IN  IF key \in DOMAIN access_log
        THEN Put(Put(f, "lastAccessed", access_log[key].lastAccessed),
                 "accessCount", access_log[key].accessCount)
        ELSE Put(Put(f, "lastAccessed", data.created), "accessCount", 0)

\* A variant of lines 119-129 that counts every load as an access.
HydrateCounting(f, data, access_log, entity_name) ==
    IF "lastAccessed" \in DOMAIN f
    THEN Put(f, "accessCount", Get(f, "accessCount", 0) + 1)
    ELSE Put(Put(f, "lastAccessed", data.created), "accessCount", 1)

\* A variant of lines 119-129 that never looks at the log.
HydrateDefaults(f, data, access_log, entity_name) ==
    IF "lastAccessed" \in DOMAIN f THEN f
    ELSE Put(Put(f, "lastAccessed", data.created), "accessCount", 0)

\* A variant of lines 119-129 that brings the statistics a fact carries up
\* to those of its log entry.
HydrateSyncing(f, data, access_log, entity_name) ==
    LET key == LogKey(entity_name, Get(f, "id", ""))
    IN  IF key \in DOMAIN access_log
        THEN Put(Put(f, "lastAccessed", access_log[key].lastAccessed),
                 "accessCount", access_log[key].accessCount)
        ELSE IF "lastAccessed" \in DOMAIN f THEN f
        ELSE Put(Put(f, "lastAccessed", data.created), "accessCount", 0)

\* Lines 119-129 for one fact.
Hydrate(f, data, access_log, entity_name) ==
    IF "lastAccessed" \in DOMAIN f THEN f
    ELSE LET key == LogKey(entity_name, Get(f, "id", ""))
         IN  IF key \in DOMAIN access_log
             THEN Put(Put(f, "lastAccessed", access_log[key].lastAccessed),
                      "accessCount", access_log[key].accessCount)
             ELSE Put(Put(f, "lastAccessed", data.created), "accessCount", 0)

\* A variant of the write-back that keeps the active facts only.
HydrateDataActive(data, access_log, entity_name) ==
    [data EXCEPT !.facts =
        SelectSeq(data.facts, LAMBDA f : Get(f, "status", None) = "active")]

\* Lines 119-139 on the document read at 114: the document written back.
HydrateData(data, access_log, entity_name) ==
    [data EXCEPT !.facts =
        [i \in 1..Len(data.facts) |-> Hydrate(data.facts[i], data, access_log, entity_name)]]

\* entity_path.name
PathName(path) == path[Len(path)]

\* A facts.json that json.load rejects.
Malformed == [malformed |-> TRUE]
IsMalformed(data) == "malformed" \in DOMAIN data

\* A date string that datetime.fromisoformat rejects ("unknown"); the dates
\* it accepts are the day numbers from 0 on.
Unknown == 0 - 1

\* No date at all (None): datetime.fromisoformat raises TypeError.
Missing == 0 - 2

\* CONFIG, lines 36-38: the tiers the environment sets (PARA_HOT_DAYS,
\* PARA_WARM_DAYS, PARA_HIGH_FREQ_THRESHOLD).
CONFIG == [hot_days |-> 1, warm_days |-> 2, high_freq_threshold |-> 3]

UnparsedDays == 100

\* Lines 74-79: the days since last_accessed; a string that does not parse
\* counts as UnparsedDays days ago.
DaysAgo(last_accessed, today) ==
    IF last_accessed >= 0 THEN today - last_accessed ELSE UnparsedDays

\* A variant of lines 82-90 with < in place of <= at both boundaries.
categorize_fact_strict(config, last_accessed, access_count, today) ==
    LET days_ago == DaysAgo(last_accessed, today)
    IN  IF access_count >= config.high_freq_threshold THEN "hot"
        ELSE IF days_ago < config.hot_days THEN "hot"
        ELSE IF days_ago < config.warm_days THEN "warm"
        ELSE "cold"

\* categorize_fact under the configuration config.
categorize_fact(config, last_accessed, access_count, today) ==
    LET days_ago == DaysAgo(last_accessed, today)
    IN  IF access_count >= config.high_freq_threshold THEN "hot"
        ELSE IF days_ago <= config.hot_days THEN "hot"
        ELSE IF days_ago <= config.warm_days THEN "warm"
        ELSE "cold"

\* A variant of lines 132-133 that leaves out the facts that name a fact in
\* supersededBy.
ActiveFactsUnreplaced(facts) ==
    SelectSeq(facts, LAMBDA f : /\ Get(f, "status", None) = "active"
                                /\ ~Truthy(Get(f, "supersededBy", None)))

\* Lines 132-133: the facts update_entity_facts returns.
ActiveFacts(facts) == SelectSeq(facts, LAMBDA f : Get(f, "status", None) = "active")

\* Lines 134-135: the related entities update_entity_facts returns.
RelatedOf(active_facts) ==
    UNION {{Get(active_facts[i], "relatedEntities", <<>>)[j] :
                j \in 1..Len(Get(active_facts[i], "relatedEntities", <<>>))} :
           i \in 1..Len(active_facts)}

\* Lines 196-199: the line of one fact.
FactLine(f) ==
    [emoji |-> IF Truthy(Get(f, "supersededBy", None)) THEN "replaced"
               ELSE IF Get(f, "category", None) = "milestone" THEN "pin"
               ELSE "clip",
     category |-> Get(f, "category", "context"),
     fact |-> Get(f, "fact", "")]

\* A variant of lines 170-176 that puts each fact before the facts already
\* in its tier (insert(0, fact) for append(fact)).
InTierNewestFirst(config, active_facts, metadata, tier, today) ==
    LET kept == SelectSeq(active_facts, LAMBDA f :
                    categorize_fact(config, Get(f, "lastAccessed", metadata.created),
                                    Get(f, "accessCount", 0), today) = tier)
    IN  [i \in 1..Len(kept) |-> kept[Len(kept) + 1 - i]]

\* Lines 170-176: the facts of one tier, in the order of the document.
InTier(config, active_facts, metadata, tier, today) ==
    SelectSeq(active_facts, LAMBDA f :
        categorize_fact(config, Get(f, "lastAccessed", metadata.created),
                        Get(f, "accessCount", 0), today) = tier)

FactLines(facts) == [i \in 1..Len(facts) |-> FactLine(facts[i])]

\* regenerate_summary for the document data of the directory path: the
\* summary.md it writes.  An empty reason, an empty tier, a cold count of 0
\* and an empty set of related entities stand for lines that are left out;
\* the related entities are listed sorted, so as a set.
SummaryOf(path, data, active_facts, related_entities, today) ==
    LET metadata == [created |-> Get(data, "created", Unknown),
                     createdReason |-> Get(data, "createdReason", ""),
                     lastUpdated |-> Get(data, "lastUpdated", Unknown)]
    IN  [kind |-> "summary", title |-> TitleOf(PathName(path)),
         created |-> metadata.created, lastUpdated |-> metadata.lastUpdated,
         reason |-> metadata.createdReason,
         hot |-> FactLines(InTier(CONFIG, active_facts, metadata, "hot", today)),
         warm |-> FactLines(InTier(CONFIG, active_facts, metadata, "warm", today)),
         cold |-> Len(InTier(CONFIG, active_facts, metadata, "cold", today)),
         related |-> related_entities]

\* Line 225: the number regenerate_summary returns.
Summarized(summary) == Len(summary.hot) + Len(summary.warm)

\* Lines 180-224: the lines of the summary.md, one record a line.  A tier
\* has its heading, its facts and a blank line only when it has facts; the
\* count of cold facts has a line only when it is not 0; the related
\* entities, sorted, follow a blank line and their heading.
SummaryLines(summary) ==
    LET section(tier, rows) ==
            IF rows = <<>> THEN <<>>
            ELSE <<[t |-> "heading", section |-> tier]>>
                    \o [i \in 1..Len(rows) |->
                            [t |-> "fact", emoji |-> rows[i].emoji,
                             category |-> rows[i].category, fact |-> rows[i].fact]]
                    \o <<[t |-> "blank"]>>
    IN  <<[t |-> "title", text |-> summary.title], [t |-> "blank"],
          [t |-> "created", day |-> summary.created],
          [t |-> "updated", day |-> summary.lastUpdated]>>
            \o (IF summary.reason # ""
                THEN <<[t |-> "reason", text |-> summary.reason]>> ELSE <<>>)
            \o <<[t |-> "blank"]>>
            \o section("hot", summary.hot)
            \o section("warm", summary.warm)
            \o (IF summary.cold # 0
                THEN <<[t |-> "cold", count |-> summary.cold]>> ELSE <<>>)
            \o (IF summary.related # {}
                THEN <<[t |-> "blank"], [t |-> "heading", section |-> "connected"],
                       [t |-> "related", paths |-> summary.related]>>
                ELSE <<>>)

\* The directories the globs of run_decay_cycle and run_quick_decay list:
\* areas/*/*, projects/*, resources/*.
Enumerated(path) ==
    \/ Len(path) = 3 /\ path[1] = "areas"
    \/ Len(path) = 2 /\ path[1] \in {"projects", "resources"}

\* The glob a directory is listed by: areas/*/* comes first, then
\* projects/*, then resources/* (run_decay_cycle lines 274, 284, 294).
Group(path) ==
    IF path[1] = "areas" THEN 1 ELSE IF path[1] = "projects" THEN 2 ELSE 3

\* The orders in which a cycle may visit the directories: glob gives the
\* entries of one pattern in the order of the directory listing, which is
\* not fixed.
Orders(fs) ==
    LET listed == {path \in DOMAIN fs : Enumerated(path)}
        n == Cardinality(listed)
    IN  {order \in [1..n -> listed] :
            /\ \A i, j \in 1..n : i # j => order[i] # order[j]
            /\ \A i, j \in 1..n : i < j => Group(order[i]) <= Group(order[j])}

\* What a cycle has done so far: the files, and the counters of
\* run_decay_cycle (lines 270-271); aborted: an exception ended the script.
DecayStart(fs, sm) ==
    [fs |-> fs, sums |-> sm, processed |-> 0, summarized |-> 0, aborted |-> FALSE]

\* Lines 277-281 for one directory: update_entity_facts, regenerate_summary.
DecayEntity(st, path, access_log, today) ==
    LET data == HydrateData(st.fs[path], access_log, PathName(path))
        active_facts == ActiveFacts(data.facts)
        summary == SummaryOf(path, data, active_facts, RelatedOf(active_facts), today)
    IN  [fs |-> [st.fs EXCEPT ![path] = data],
         sums |-> Put(st.sums, path, summary),
         processed |-> st.processed + 1,
         summarized |-> st.summarized + Summarized(summary),
         aborted |-> FALSE]

RECURSIVE DecayLoop(_, _, _, _)
\* The loops of lines 274-302 (and 322-326) over the directories in `order`.
\* json.load (line 114) raises on a malformed file and nothing catches it.
DecayLoop(st, order, access_log, today) ==
    IF order = <<>> THEN st
    ELSE IF IsMalformed(st.fs[Head(order)]) THEN [st EXCEPT !.aborted = TRUE]
    ELSE DecayLoop(DecayEntity(st, Head(order), access_log, today),
                   Tail(order), access_log, today)

\* clean_superseded_chains: the directories it reports.  It lists areas/*/*
\* only and writes nothing.
clean_superseded_chains(fs) ==
    {path \in DOMAIN fs :
        /\ Len(path) = 3 /\ path[1] = "areas"
        /\ LET facts == Get(fs[path], "facts", <<>>)
               active_count == Cardinality({i \in 1..Len(facts) :
                                    Get(facts[i], "status", None) = "active"})
               superseded_count == Cardinality({i \in 1..Len(facts) :
                                    Get(facts[i], "status", None) = "superseded"})
           IN  superseded_count > active_count * 2}

-----------------------------------------------------------------------------
(* The operations as one invocation runs them, start to end. *)

\* append_fact_to_entity: the file system it leaves and the value it returns.
append_fact_to_entity(fs, entity_type, entity_name, fact, supersedes_id, today) ==
    LET name == Slug(entity_name)
        path == entity_path_for(entity_type, name)
        fs1 == IF ~Exists(fs, path)
               THEN create_entity(fs, entity_type, name, AutoReason, today)
               ELSE fs
        r == AppendToData(fs1[path], name, fact, supersedes_id, today)
    IN  [fs |-> IF r.written THEN [fs1 EXCEPT ![path] = r.data] ELSE fs1,
         ret |-> r.ret]

\* bump_access_metadata: the file system and the log it leaves, the count
\* it returns.
bump_access_metadata(fs, lg, entity_type, entity_name, fact_ids, today) ==
    LET name == Slug(entity_name)
        path == entity_path_for(entity_type, name)
    IN  IF ~Exists(fs, path) THEN [fs |-> fs, log |-> lg, ret |-> 0]
        ELSE LET data == BumpData(fs[path], fact_ids, today)
             IN  [fs |-> [fs EXCEPT ![path] = data],
                  log |-> update_access_log(lg, name, BumpLogIds(data), today),
                  ret |-> Bumped(fs[path], fact_ids)]

-----------------------------------------------------------------------------
(* Bounded inputs and the initial documents. *)

\* The ids a caller names: those of the entity's first two facts.
IdInputs(entity_name) == {FactId(Slug(entity_name), k) : k \in {1, 2}}

NoFiles == [path \in {} |-> None]

\* A document that predates the access metadata: its fact carries neither
\* lastAccessed nor accessCount (update_entity_facts lines 121-129 serve it).
LegacyFact ==
    [id |-> "acm-001", fact |-> "founded 2019", category |-> "context",
     status |-> "active", relatedEntities |-> <<>>,
     supersededBy |-> None, supersedes |-> None]

LegacyFiles ==
    <<"areas", "companies", "acme-co">> :>
        [entity |-> "acme-co", entity_type |-> "companies", created |-> 0,
         lastUpdated |-> 0, createdReason |-> "", facts |-> <<LegacyFact>>]

Procs == {1, 2}

Idle == [p \in Procs |-> "idle"]
NoLocals == [p \in Procs |-> [op |-> "none"]]

-----------------------------------------------------------------------------
(* memory_checkpoint.py: parse_llm_response, regenerate_entity_summary and  *)
(* trigger_checkpoint.                                                      *)

\* JSON values: an object with its members, or a value that is no object.
JObject(members) == [type |-> "object", members |-> members]
JArray == [type |-> "array"]

\* The text of the model's reply, piece by piece: prose without braces, a
\* code fence with its language ("" for a bare ```, which also closes a
\* block), a balanced {...} (valid: json.loads accepts it; flat: no braces
\* inside it; value: what it holds), or a JSON text that is no object.
Prose == [t |-> "prose"]
Fence(lang) == [t |-> "fence", lang |-> lang]
Braces(valid, flat, members) ==
    [t |-> "braces", valid |-> valid, flat |-> flat, value |-> JObject(members)]
Literal == [t |-> "literal", valid |-> TRUE, flat |-> TRUE, value |-> JArray]

\* json.loads on one piece: <<value>>, or <<>> for JSONDecodeError.
Loads(piece) ==
    IF piece.t \in {"braces", "literal"} /\ piece.valid THEN <<piece.value>> ELSE <<>>

\* Strategy 1 (lines 220-223): the whole text is JSON.
ParseDirect(analysis) ==
    IF Len(analysis) = 1 THEN Loads(analysis[1]) ELSE <<>>

\* Strategies 2 and 3 (lines 225-239): the leftmost ``` of the language lang
\* followed by "{", up to the first "}" before a closing ```; what lies
\* between is JSON only when it is one valid {...}.
ParseFenced(analysis, lang) ==
    LET closes(i) == {j \in (i + 2)..Len(analysis) :
                        analysis[j] = Fence("") /\ analysis[j - 1].t = "braces"}
        opens == {i \in 1..(Len(analysis) - 1) :
                    /\ analysis[i] = Fence(lang)
                    /\ analysis[i + 1].t = "braces"
                    /\ closes(i) # {}}
    IN  IF opens = {} THEN <<>>
        ELSE LET i == CHOOSE k \in opens : \A m \in opens : k <= m
                 j == CHOOSE k \in closes(i) : \A m \in closes(i) : k <= m
             IN  IF j = i + 2 THEN Loads(analysis[i + 1]) ELSE <<>>

\* Strategy 4 (lines 241-247): the leftmost {...} without inner braces that
\* holds the key "entity_facts".
ParseFlat(analysis) ==
    LET hits == {i \in 1..Len(analysis) :
                    /\ analysis[i].t = "braces"
                    /\ analysis[i].flat
                    /\ "entity_facts" \in DOMAIN analysis[i].value.members}
    IN  IF hits = {} THEN <<>>
        ELSE Loads(analysis[CHOOSE k \in hits : \A m \in hits : k <= m])

\* Strategy 5 (lines 249-265): the first balanced {...} that is JSON and
\* holds "entity_facts" or "new_entities".
ParseBraces(analysis) ==
    LET hits == {i \in 1..Len(analysis) :
                    /\ analysis[i].t = "braces"
                    /\ analysis[i].valid
                    /\ {"entity_facts", "new_entities"}
                            \cap DOMAIN analysis[i].value.members # {}}
    IN  IF hits = {} THEN <<>>
        ELSE Loads(analysis[CHOOSE k \in hits : \A m \in hits : k <= m])

\* A variant of parse_llm_response that returns an empty object where line
\* 267 raises.
parse_llm_response_lenient(analysis) ==
    LET tries == <<ParseDirect(analysis), ParseFenced(analysis, "json"),
                   ParseFenced(analysis, ""), ParseFlat(analysis),
                   ParseBraces(analysis)>>
        found == {k \in 1..Len(tries) : tries[k] # <<>>}
    IN  IF found = {} THEN [raised |-> FALSE, value |-> JObject(<<>>)]
        ELSE [raised |-> FALSE,
              value |-> tries[CHOOSE k \in found : \A m \in found : k <= m][1]]

\* parse_llm_response: the value of the first strategy that gives one;
\* raised: ValueError (line 267).
parse_llm_response(analysis) ==
    LET tries == <<ParseDirect(analysis), ParseFenced(analysis, "json"),
                   ParseFenced(analysis, ""), ParseFlat(analysis),
                   ParseBraces(analysis)>>
        found == {k \in 1..Len(tries) : tries[k] # <<>>}
    IN  IF found = {} THEN [raised |-> TRUE]
        ELSE [raised |-> FALSE,
              value |-> tries[CHOOSE k \in found : \A m \in found : k <= m][1]]

\* HOT_DAYS, WARM_DAYS (lines 500-501) and the count of line 516.
CheckpointTiers == [hot_days |-> 7, warm_days |-> 30, high_freq_threshold |-> 10]

\* Lines 540-541: the line of one fact.
EntityFactLine(f) ==
    [emoji |-> IF Get(f, "category", None) = "milestone" THEN "pin" ELSE "clip",
     category |-> f.category,
     fact |-> f.fact]

\* regenerate_entity_summary, on the files fs and the summaries sm: the
\* summaries it leaves.
regenerate_entity_summary(fs, sm, entity_type, entity_name, today) ==
    LET path == entity_path_for(entity_type, Slug(entity_name))
    IN  IF ~Exists(fs, path) THEN sm
        ELSE LET data == fs[path]
                 created == Get(data, "created", Unknown)
                 active == ActiveFacts(Get(data, "facts", <<>>))
                 tier(t) == SelectSeq(active, LAMBDA f :
                                categorize_fact(CheckpointTiers,
                                                Get(f, "lastAccessed", created),
                                                Get(f, "accessCount", 0), today) = t)
             IN  Put(sm, path,
                     [kind |-> "summary",
                      title |-> TitleOf(Get(data, "entity", entity_name)),
                      created |-> created,
                      lastUpdated |-> Get(data, "lastUpdated", Unknown),
                      reason |-> Get(data, "createdReason", ""),
                      hot |-> [i \in 1..Len(tier("hot")) |-> EntityFactLine(tier("hot")[i])],
                      warm |-> [i \in 1..Len(tier("warm")) |-> EntityFactLine(tier("warm")[i])],
                      cold |-> Len(tier("cold")),
                      related |-> RelatedOf(active)])

\* Line 596.
NoStats ==
    [entities_created |-> 0, facts_added |-> 0, facts_superseded |-> 0,
     daily_notes |-> FALSE]

\* Lines 599-606 for one element of new_entities, on st = [fs, sums, notes,
\* stats].
CreateOne(st, entity_type, entity_name, reason_text, today) ==
    IF Truthy(entity_type) /\ Truthy(entity_name)
    THEN [st EXCEPT
            !.fs = create_entity(@, entity_type, entity_name, reason_text, today),
            !.sums = create_entity_summary(@, entity_type, entity_name,
                                           reason_text, today),
            !.stats.entities_created = @ + 1]
    ELSE st

RECURSIVE CreateEntities(_, _, _)
\* Lines 598-606 over new_entities.
CreateEntities(st, new_entities, today) ==
    IF new_entities = <<>> THEN st
    ELSE CreateEntities(CreateOne(st, Get(Head(new_entities), "entity_type", None),
                                  Get(Head(new_entities), "entity_name", None),
                                  Get(Head(new_entities), "reason", ""), today),
                        Tail(new_entities), today)

\* Lines 616-630 for one element of entity_facts; r is what
\* append_fact_to_entity left and returned.
Appended(st, r, existed, entity_type, entity_name, related, supersedes_id, today) ==
    [st EXCEPT
        !.fs = IF related # <<>>
               THEN update_entity_cross_references(r.fs, entity_type, entity_name,
                                                   related)
               ELSE r.fs,
        !.sums = IF existed THEN @
                 ELSE create_entity_summary(@, entity_type, entity_name,
                                            AutoReason, today),
        !.stats.facts_added = IF r.ret # <<>> THEN @ + 1 ELSE @,
        !.stats.facts_superseded =
            IF r.ret # <<>> /\ Truthy(supersedes_id) THEN @ + 1 ELSE @]

\* Lines 610-630 for one element of entity_facts.
AppendOne(st, entity_type, entity_name, fact, supersedes_id, today) ==
    IF Truthy(entity_type) /\ Truthy(entity_name) /\ fact # <<>>
    THEN Appended(st,
                  append_fact_to_entity(st.fs, entity_type, entity_name, fact,
                                        supersedes_id, today),
                  Exists(st.fs, entity_path_for(entity_type, Slug(entity_name))),
                  entity_type, entity_name,
                  Get(fact, "relatedEntities", <<>>), supersedes_id, today)
    ELSE st

RECURSIVE AppendFacts(_, _, _)
\* Lines 608-630 over entity_facts.
AppendFacts(st, entity_facts, today) ==
    IF entity_facts = <<>> THEN st
    ELSE AppendFacts(AppendOne(st, Get(Head(entity_facts), "entity_type", None),
                               Get(Head(entity_facts), "entity_name", None),
                               Get(Head(entity_facts), "fact", <<>>),
                               Get(Head(entity_facts), "supersedes_id", None), today),
                     Tail(entity_facts), today)

\* Lines 634-638 for one element of entity_facts.
RegenerateOne(fs, sm, entity_type, entity_name, today) ==
    IF Truthy(entity_type) /\ Truthy(entity_name)
    THEN regenerate_entity_summary(fs, sm, entity_type, entity_name, today)
    ELSE sm

RECURSIVE RegenerateSummaries(_, _, _, _)
\* Lines 632-638: the summaries of the entities entity_facts names.
RegenerateSummaries(fs, sm, entity_facts, today) ==
    IF entity_facts = <<>> THEN sm
    ELSE RegenerateSummaries(fs,
                             RegenerateOne(fs, sm,
                                           Get(Head(entity_facts), "entity_type", None),
                                           Get(Head(entity_facts), "entity_name", None),
                                           today),
                             Tail(entity_facts), today)

\* Lines 632-638 on st.
Regenerated(st, entity_facts, today) ==
    [st EXCEPT !.sums = RegenerateSummaries(st.fs, @, entity_facts, today)]

\* write_daily_note: the entry is appended to the note of the day.
write_daily_note(nt, entry, today) == Append(nt, [day |-> today, entry |-> entry])

\* Lines 640-643 on st.
Noted(st, daily_notes, today) ==
    IF Truthy(daily_notes)
    THEN [st EXCEPT !.notes = write_daily_note(@, daily_notes, today),
                    !.stats.daily_notes = TRUE]
    ELSE st

\* Lines 596-647 for the object `members` that parse_llm_response returned.
ApplyResult(fs, sm, nt, members, today) ==
    Noted(Regenerated(AppendFacts(CreateEntities([fs |-> fs, sums |-> sm,
                                                  notes |-> nt, stats |-> NoStats],
                                                 Get(members, "new_entities", <<>>),
                                                 today),
                                  Get(members, "entity_facts", <<>>), today),
                      Get(members, "entity_facts", <<>>), today),
          Get(members, "daily_notes", None), today)

\* What the service call of analyze_with_llm ends with: the reply text, or
\* an exception (the timeout of 60 s, an error of the service).
Timeout == [kind |-> "timeout"]
ServiceError == [kind |-> "service_error"]
Reply(analysis) == [kind |-> "text", analysis |-> analysis]

\* Line 648: the value returned after the writes.
Succeeded(st) ==
    [fs |-> st.fs, sums |-> st.sums, notes |-> st.notes,
     stats |-> st.stats, status |-> "success"]

\* Lines 578-580 and 650-654: the value returned when nothing was written.
Unwritten(fs, sm, nt, status) ==
    [fs |-> fs, sums |-> sm, notes |-> nt, stats |-> NoStats, status |-> status]

\* Lines 594-648 for the value parse_llm_response gave; a value that is no
\* object has no get (AttributeError at line 598).
Checkpointed(fs, sm, nt, result, today) ==
    IF result.raised THEN Unwritten(fs, sm, nt, "error")
    ELSE IF result.value.type # "object" THEN Unwritten(fs, sm, nt, "error")
    ELSE Succeeded(ApplyResult(fs, sm, nt, result.value.members, today))

\* trigger_checkpoint: the files it leaves and the value it returns.
\* has_context: get_recent_context returned messages.
trigger_checkpoint(fs, sm, nt, has_context, outcome, today) ==
    IF ~has_context THEN Unwritten(fs, sm, nt, "skipped")
    ELSE IF outcome.kind # "text" THEN Unwritten(fs, sm, nt, "error")
    ELSE Checkpointed(fs, sm, nt, parse_llm_response(outcome.analysis), today)

-----------------------------------------------------------------------------
(* Spec: one invocation at a time, each operation one step. *)

Init ==
    /\ docs \in {NoFiles, LegacyFiles}
    /\ log = NoFiles
    /\ now = 0
    /\ last = [op |-> "other"]
    /\ pc = Idle
    /\ loc = NoLocals
    /\ ops = 0
    /\ notes = <<>>
    /\ sums = [path \in DOMAIN docs |->
                InitialSummary(PathName(path), docs[path].createdReason,
                               docs[path].created)]

\* One more operation of a run of at most MaxSteps.
Step ==
    /\ ops < MaxSteps
    /\ ops' = ops + 1
    /\ UNCHANGED <<pc, loc>>

CreateEntity(entity_type, entity_name, reason) ==
    /\ Step
    /\ docs' = create_entity(docs, entity_type, entity_name, reason, now)
    /\ sums' = create_entity_summary(sums, entity_type, entity_name, reason, now)
    /\ last' = [op |-> "create", reason |-> reason,
                existed |-> Exists(docs, entity_path_for(entity_type,
                                                         Slug(entity_name)))]
    /\ UNCHANGED <<log, now, notes>>

AppendFact(entity_type, entity_name, fact, supersedes_id) ==
    LET r == append_fact_to_entity(docs, entity_type, entity_name, fact,
                                   supersedes_id, now)
    IN  /\ Step
        /\ docs' = r.fs
        /\ sums' = IF Exists(docs, entity_path_for(entity_type, Slug(entity_name)))
                   THEN sums
                   ELSE create_entity_summary(sums, entity_type, entity_name,
                                              AutoReason, now)
        /\ last' = [op |-> "append", supersedes_id |-> supersedes_id,
                    ret |-> IF r.ret = <<>> THEN None ELSE r.ret[1].id]
        /\ UNCHANGED <<log, now, notes>>

CrossReference(entity_type, entity_name, related_entities) ==
    /\ Step
    /\ docs' = update_entity_cross_references(docs, entity_type, entity_name,
                                              related_entities)
    /\ last' = [op |-> "crossref", related_entities |-> related_entities,
                changed |-> docs' # docs]
    /\ UNCHANGED <<log, now, notes, sums>>

BumpAccess(entity_type, entity_name, fact_ids) ==
    LET r == bump_access_metadata(docs, log, entity_type, entity_name, fact_ids, now)
    IN  /\ Step
        /\ docs' = r.fs
        /\ log' = r.log
        /\ last' = [op |-> "bump", fact_ids |-> fact_ids, ret |-> r.ret]
        /\ UNCHANGED <<now, notes, sums>>

RecordAccess(entity_id, fact_id) ==
    /\ Step
    /\ log' = record_access(log, entity_id, fact_id, now)
    /\ last' = [op |-> "other"]
    /\ UNCHANGED <<docs, now, notes, sums>>

\* run_decay_cycle: the loops over the directories, then the report of
\* clean_superseded_chains (line 305) unless an exception ended the script
\* before.  The counters and the report are printed.
DecayCycle ==
    \E order \in Orders(docs) :
        LET st == DecayLoop(DecayStart(docs, sums), order, log, now)
        IN  /\ Step
            /\ docs' = st.fs
            /\ sums' = st.sums
            /\ last' = [op |-> "decay", aborted |-> st.aborted,
                        processed |-> st.processed, summarized |-> st.summarized,
                        changed |-> st.fs # docs,
                        flagged |-> IF st.aborted THEN {}
                                    ELSE clean_superseded_chains(st.fs)]
            /\ UNCHANGED <<log, now, notes>>

\* run_quick_decay: the same loop; it prints no counters.
QuickDecay ==
    \E order \in Orders(docs) :
        LET st == DecayLoop(DecayStart(docs, sums), order, log, now)
        IN  /\ Step
            /\ docs' = st.fs
            /\ sums' = st.sums
            /\ last' = [op |-> "quick", changed |-> st.fs # docs]
            /\ UNCHANGED <<log, now, notes>>

\* The clock advances; it never goes back.
Tick ==
    /\ Step
    /\ now' = now + 1
    /\ last' = [op |-> "other"]
    /\ UNCHANGED <<docs, log, sums, notes>>

Next ==
    \/ \E e \in EntityInputs, reason \in ReasonInputs :
            CreateEntity(e[1], e[2], reason)
    \/ \E e \in EntityInputs, fact \in FactInputs :
            \E supersedes_id \in {None} \cup IdInputs(e[2]) :
                AppendFact(e[1], e[2], fact, supersedes_id)
    \/ \E e \in SourceInputs, related_entities \in RelatedInputs :
            CrossReference(e[1], e[2], related_entities)
    \/ \E e \in EntityInputs :
            \E fact_ids \in {AllFacts} \cup {TheseFacts({id}) : id \in IdInputs(e[2])} :
                BumpAccess(e[1], e[2], fact_ids)
    \/ \E e \in EntityInputs : \E fact_id \in IdInputs(e[2]) :
            RecordAccess(Slug(e[2]), fact_id)
    \/ DecayCycle
    \/ QuickDecay
    \/ Tick

Spec == Init /\ [][Next]_vars

-----------------------------------------------------------------------------
(* SpecXref: facts are appended to entities of the four collections and    *)
(* cross references are propagated between them, one invocation at a time. *)

InitXref ==
    /\ docs = NoFiles
    /\ log = NoFiles
    /\ now = 0
    /\ last = [op |-> "other"]
    /\ pc = Idle
    /\ loc = NoLocals
    /\ ops = 0
    /\ notes = <<>>
    /\ sums = NoFiles

NextXref ==
    \/ \E e \in XrefEntities, fact \in XrefFacts :
            \E supersedes_id \in {None, FactId(Slug(e[2]), 1)} :
                ops < MaxXrefSteps /\ AppendFact(e[1], e[2], fact, supersedes_id)
    \/ \E e \in XrefEntities, related_entities \in XrefRelated :
            ops < MaxXrefSteps /\ CrossReference(e[1], e[2], related_entities)

SpecXref == InitXref /\ [][NextXref]_vars

-----------------------------------------------------------------------------
(* SpecDecay: decay cycles over documents of several collections, one of   *)
(* which may be a file json.load rejects.                                  *)

\* The entities with documents, and the contents of their facts: the k-th
\* fact of a document was appended in place of the one before it.
DecayEntities == {<<"people", "tara">>, <<"projects", "apollo">>}
ChainContents == <<"joined", "promoted", "moved to Berlin", "left">>
ChainLengths == {0, 1, Len(ChainContents)}

RECURSIVE ChainFiles(_, _, _)
\* The files after n calls of append_fact_to_entity for the entity e on day
\* 0, each but the first with the id of the fact before as supersedes_id.
ChainFiles(fs, e, n) ==
    IF n = 0 THEN fs
    ELSE append_fact_to_entity(ChainFiles(fs, e, n - 1), e[1], e[2],
                               [content |-> ChainContents[n], category |-> "status",
                                relatedEntities |-> <<"areas/companies/acme-co">>],
                               IF n = 1 THEN None ELSE FactId(Slug(e[2]), n - 1),
                               0).fs

DecayFiles ==
    {ChainFiles(ChainFiles(base, <<"people", "tara">>, a), <<"projects", "apollo">>, b) :
        base \in {NoFiles, LegacyFiles}, a \in ChainLengths, b \in ChainLengths}

InitDecay ==
    /\ docs \in DecayFiles
    /\ log = NoFiles
    /\ now = 0
    /\ last = [op |-> "other"]
    /\ pc = Idle
    /\ loc = NoLocals
    /\ ops = 0
    /\ notes = <<>>
    /\ sums = [path \in DOMAIN docs |->
                InitialSummary(PathName(path), docs[path].createdReason,
                               docs[path].created)]

\* A writer of facts.json (open(..., "w") followed by json.dump) was ended
\* between the two: the file is left empty or cut short, and json.load
\* rejects it.
Truncate(path) ==
    /\ ops < MaxDecaySteps
    /\ ops' = ops + 1
    /\ path \in DOMAIN docs
    /\ ~IsMalformed(docs[path])
    /\ docs' = [docs EXCEPT ![path] = Malformed]
    /\ last' = [op |-> "other"]
    /\ UNCHANGED <<log, now, notes, sums, pc, loc>>

NextDecay ==
    \/ ops < MaxDecaySteps /\ DecayCycle
    \/ ops < MaxDecaySteps /\ Tick
    \/ \E path \in DOMAIN docs : Truncate(path)
    \/ \E name \in {"acme-co", "tara"} :
            ops < MaxDecaySteps /\ RecordAccess(name, FactId(name, 1))

SpecDecay == InitDecay /\ [][NextDecay]_vars


-----------------------------------------------------------------------------
(* SpecSummary: decay cycles over a document whose facts were appended on   *)
(* different days, some in place of the fact before, and are bumped.        *)

\* The days of the appends, and the categories of the facts appended.
SummaryDays == {0, 1, 3}
SummaryCategories == <<"milestone", "status", "context">>

\* The histories of people/tara: the k-th fact was appended on days[k], and
\* with the id of the fact before it as supersedes_id when sups[k].
Histories ==
    {h \in UNION {[days : [1..n -> SummaryDays], sups : [1..n -> BOOLEAN]] :
                    n \in 0..Len(SummaryCategories)} :
        /\ \A i, j \in 1..Len(h.days) : i < j => h.days[i] <= h.days[j]
        /\ Len(h.sups) >= 1 => ~h.sups[1]}

RECURSIVE HistoryFiles(_, _)
\* The files after the calls of append_fact_to_entity of the history h.
HistoryFiles(fs, h) ==
    LET n == Len(h.days)
    IN  IF n = 0 THEN fs
        ELSE append_fact_to_entity(
                HistoryFiles(fs, [days |-> SubSeq(h.days, 1, n - 1),
                                  sups |-> SubSeq(h.sups, 1, n - 1)]),
                "people", "tara",
                [content |-> ChainContents[n], category |-> SummaryCategories[n],
                 relatedEntities |-> <<>>],
                IF h.sups[n] THEN FactId("tara", n - 1) ELSE None,
                h.days[n]).fs

SummaryFiles ==
    {HistoryFiles(base, h) : base \in {NoFiles, LegacyFiles}, h \in Histories}

InitSummary ==
    /\ docs \in SummaryFiles
    /\ log = NoFiles
    /\ now \in {d \in SummaryDays : \A e \in SummaryDays : e <= d}
    /\ last = [op |-> "other"]
    /\ pc = Idle
    /\ loc = NoLocals
    /\ ops = 0
    /\ notes = <<>>
    /\ sums = [path \in DOMAIN docs |->
                InitialSummary(PathName(path), docs[path].createdReason,
                               docs[path].created)]

NextSummary ==
    \/ ops < MaxSummarySteps /\ DecayCycle
    \/ ops < MaxSummarySteps /\ QuickDecay
    \/ ops < MaxSummarySteps /\ Tick
    \/ \E k \in {1, 2} :
            /\ ops < MaxSummarySteps
            /\ BumpAccess("people", "tara", TheseFacts({FactId("tara", k)}))

SpecSummary == InitSummary /\ [][NextSummary]_vars

-----------------------------------------------------------------------------
(* SpecTier: categorize_fact on its own, over configurations, dates and    *)
(* access counts around every boundary.                                    *)

\* The defaults of get_config (lines 36-38), the tiers of CONFIG, tiers that
\* reach the UnparsedDays days of an unreadable date, and tiers set with
\* warm_days below hot_days (get_config checks nothing).
TierConfigs ==
    {[hot_days |-> 7, warm_days |-> 30, high_freq_threshold |-> 10],
     CONFIG,
     [hot_days |-> 0, warm_days |-> UnparsedDays, high_freq_threshold |-> 1],
     [hot_days |-> 3, warm_days |-> 1, high_freq_threshold |-> 2]}

\* last_accessed_str: a date, a string that is no date, or None.
TierDates == {Unknown, Missing, 0, 1}
\* The day the classifier runs.
TierToday == {0, 1, 2, 3, 4, 7, 8, 30, 31, 100, 101, 500}
TierCounts == {0, 1, 2, 3, 9, 10, 11}

InitTier ==
    /\ docs = NoFiles
    /\ log = NoFiles
    /\ now \in TierToday
    /\ last \in [op : {"input"}, config : TierConfigs,
                 last_accessed : TierDates, access_count : TierCounts]
    /\ pc = Idle
    /\ loc = NoLocals
    /\ ops = 0
    /\ notes = <<>>
    /\ sums = NoFiles

\* One call of categorize_fact; `last` keeps the arguments and the result.
Categorize ==
    /\ last.op = "input"
    /\ last' = [op |-> "tier", config |-> last.config,
                last_accessed |-> last.last_accessed,
                access_count |-> last.access_count,
                tier |-> categorize_fact(last.config, last.last_accessed,
                                         last.access_count, now)]
    /\ UNCHANGED <<docs, log, now, notes, pc, loc, ops, sums>>

NextTier == Categorize

SpecTier == InitTier /\ [][NextTier]_vars

-----------------------------------------------------------------------------
(* SpecCheckpoint: checkpoints whose extraction succeeds or fails.          *)

\* Objects the model may reply with.
ResultFull ==
    [new_entities |-> <<[entity_type |-> "people", entity_name |-> "tara",
                         reason |-> "mentioned 3 times"]>>,
     entity_facts |-> <<[entity_type |-> "companies", entity_name |-> "Acme Co",
                         fact |-> [content |-> "runs apollo",
                                   category |-> "milestone",
                                   relatedEntities |-> <<"areas/people/tara">>],
                         supersedes_id |-> None]>>,
     daily_notes |-> "Acme runs apollo"]
ResultSupersede ==
    [entity_facts |-> <<[entity_type |-> "companies", entity_name |-> "Acme Co",
                         fact |-> [content |-> "signed contract",
                                   category |-> "status",
                                   relatedEntities |-> <<>>],
                         supersedes_id |-> "acm-001"]>>,
     daily_notes |-> None]
ResultRelated ==
    [entity_facts |-> <<[entity_type |-> "people", entity_name |-> "tara",
                         fact |-> [content |-> "works at acme",
                                   category |-> "relationship",
                                   relatedEntities |-> <<"areas/companies/acme-co">>],
                         supersedes_id |-> None]>>]
ResultMutual ==
    [entity_facts |-> <<[entity_type |-> "companies", entity_name |-> "acme-co",
                         fact |-> [content |-> "employs tara",
                                   category |-> "relationship",
                                   relatedEntities |-> <<"areas/people/tara">>],
                         supersedes_id |-> None],
                        [entity_type |-> "people", entity_name |-> "tara",
                         fact |-> [content |-> "works at acme",
                                   category |-> "relationship",
                                   relatedEntities |-> <<"areas/companies/acme-co">>],
                         supersedes_id |-> None]>>]
ResultEmpty == [entity_facts |-> <<>>, daily_notes |-> "quiet day"]
ResultOther == [decisions |-> <<>>]

\* Replies: JSON alone, in a ```json block, in a bare block, a flat object
\* in prose, objects in prose, a broken block before an object; and replies
\* that give no result: prose, a broken object, an object without the keys,
\* JSON that is no object.
Analyses ==
    {<<Braces(TRUE, FALSE, ResultFull)>>,
     <<Prose, Fence("json"), Braces(TRUE, FALSE, ResultSupersede), Fence(""), Prose>>,
     <<Prose, Fence(""), Braces(TRUE, FALSE, ResultFull), Fence("")>>,
     <<Prose, Braces(TRUE, TRUE, ResultEmpty), Prose>>,
     <<Braces(TRUE, FALSE, ResultRelated)>>,
     <<Fence("json"), Braces(TRUE, FALSE, ResultMutual), Fence("")>>,
     <<Prose, Braces(TRUE, TRUE, ResultOther), Prose, Braces(TRUE, FALSE, ResultFull)>>,
     <<Prose, Fence("json"), Braces(FALSE, FALSE, ResultFull), Fence(""),
       Braces(TRUE, FALSE, ResultSupersede)>>,
     <<Prose>>,
     <<Prose, Braces(FALSE, TRUE, ResultEmpty)>>,
     <<Prose, Braces(TRUE, TRUE, ResultOther)>>,
     <<Literal>>}

Outcomes == {Timeout, ServiceError} \cup {Reply(analysis) : analysis \in Analyses}

InitCheckpoint ==
    /\ docs \in {NoFiles, LegacyFiles}
    /\ log = NoFiles
    /\ now = 0
    /\ last = [op |-> "other"]
    /\ pc = Idle
    /\ loc = NoLocals
    /\ ops = 0
    /\ notes = <<>>
    /\ sums = [path \in DOMAIN docs |->
                InitialSummary(PathName(path), docs[path].createdReason,
                               docs[path].created)]

\* One run of trigger_checkpoint.
Checkpoint(has_context, outcome) ==
    \E r \in {trigger_checkpoint(docs, sums, notes, has_context, outcome, now)} :
        /\ ops < MaxCheckpointSteps
        /\ ops' = ops + 1
        /\ docs' = r.fs
        /\ sums' = r.sums
        /\ notes' = r.notes
        /\ last' = [op |-> "checkpoint", has_context |-> has_context,
                    outcome |-> outcome, status |-> r.status, stats |-> r.stats]
        /\ UNCHANGED <<log, now, pc, loc>>

NextCheckpoint ==
    \/ \E has_context \in BOOLEAN, outcome \in Outcomes :
            Checkpoint(has_context, outcome)
    \/ ops < MaxCheckpointSteps /\ Tick

SpecCheckpoint == InitCheckpoint /\ [][NextCheckpoint]_vars

-----------------------------------------------------------------------------
(* SpecConc: two invocations (a checkpoint, a decay cycle, a manual call)  *)
(* run at once.  Neither script takes a lock; an invocation is atomic only *)
(* in each single access to a file: an existence test, a read of the whole *)
(* file, a write of the whole file.  pc[p] names the line invocation p     *)
(* runs next, loc[p] holds its arguments and what it has read.             *)
(* Here `last` accumulates what the completed operations reported: the     *)
(* contents append_fact_to_entity returned as added, and per log key the   *)
(* number of increments the invocations applied.                           *)

NoEffects == [added |-> {}, bumps |-> NoFiles]

InitConc ==
    /\ docs = NoFiles
    /\ log = NoFiles
    /\ now = 0
    /\ last = NoEffects
    /\ pc = Idle
    /\ loc = NoLocals
    /\ ops = 0
    /\ notes = <<>>
    /\ sums = NoFiles

\* Invocation p starts an operation.
Start(p) ==
    /\ pc[p] = "idle"
    /\ ops < MaxConcOps
    /\ ops' = ops + 1

\* Invocation p takes the step at `label`.
At(p, label) == pc[p] = label /\ UNCHANGED ops

\* Control returns to the caller.
Return(p) ==
    /\ pc' = [pc EXCEPT ![p] = "idle"]
    /\ loc' = [loc EXCEPT ![p] = [op |-> "none"]]

Goto(p, label) == pc' = [pc EXCEPT ![p] = label]

\* append_fact_to_entity, line 307.
ConcAppendStart(p, entity_type, entity_name, fact, supersedes_id) ==
    LET name == Slug(entity_name)
        path == entity_path_for(entity_type, name)
    IN  /\ Start(p)
        /\ loc' = [loc EXCEPT ![p] =
                [entity_type |-> entity_type, name |-> name,
                 path |-> path, fact |-> fact, supersedes_id |-> supersedes_id]]
        /\ Goto(p, IF Exists(docs, path) THEN "append_read" ELSE "create_test")
        /\ UNCHANGED <<docs, log, now, notes, last, sums>>

\* create_entity, lines 277-287: the summary.md is written when there is
\* none, then facts.json is tested.
ConcCreateTest(p) ==
    /\ At(p, "create_test")
    /\ sums' = create_entity_summary(sums, loc[p].entity_type, loc[p].name,
                                     AutoReason, now)
    /\ Goto(p, IF Exists(docs, loc[p].path) THEN "append_read" ELSE "create_write")
    /\ UNCHANGED <<docs, log, now, notes, last, loc>>

\* create_entity, line 288.
ConcCreateWrite(p) ==
    /\ At(p, "create_write")
    /\ docs' = Put(docs, loc[p].path,
                   NewDocument(loc[p].name, loc[p].entity_type, AutoReason, now))
    /\ Goto(p, "append_read")
    /\ UNCHANGED <<log, now, notes, last, loc, sums>>

\* append_fact_to_entity, lines 310-311.
ConcAppendRead(p) ==
    /\ At(p, "append_read")
    /\ loc' = [loc EXCEPT ![p] = Put(@, "data", docs[loc[p].path])]
    /\ Goto(p, "append_write")
    /\ UNCHANGED <<docs, log, now, notes, last, sums>>

\* append_fact_to_entity, lines 313-359.
ConcAppendWrite(p) ==
    LET r == AppendToData(loc[p].data, loc[p].name, loc[p].fact,
                          loc[p].supersedes_id, now)
    IN  /\ At(p, "append_write")
        /\ docs' = IF r.written THEN [docs EXCEPT ![loc[p].path] = r.data] ELSE docs
        /\ last' = IF r.written
                   THEN [last EXCEPT !.added = @ \cup {r.ret[1].fact}]
                   ELSE last
        /\ Return(p)
        /\ UNCHANGED <<log, now, notes, sums>>

\* bump_access_metadata, line 409.
ConcBumpStart(p, entity_type, entity_name, fact_ids) ==
    LET name == Slug(entity_name)
        path == entity_path_for(entity_type, name)
    IN  /\ Start(p)
        /\ IF Exists(docs, path)
           THEN /\ loc' = [loc EXCEPT ![p] =
                        [name |-> name, path |-> path,
                         fact_ids |-> fact_ids]]
                /\ Goto(p, "bump_read")
           ELSE /\ loc' = [loc EXCEPT ![p] = [op |-> "none"]]
                /\ UNCHANGED pc
        /\ UNCHANGED <<docs, log, now, notes, last, sums>>

\* bump_access_metadata, lines 412-413.
ConcBumpRead(p) ==
    /\ At(p, "bump_read")
    /\ loc' = [loc EXCEPT ![p] = Put(@, "data", docs[loc[p].path])]
    /\ Goto(p, "bump_write")
    /\ UNCHANGED <<docs, log, now, notes, last, sums>>

\* bump_access_metadata, lines 415-425.
ConcBumpWrite(p) ==
    LET data == BumpData(loc[p].data, loc[p].fact_ids, now)
    IN  /\ At(p, "bump_write")
        /\ docs' = [docs EXCEPT ![loc[p].path] = data]
        /\ loc' = [loc EXCEPT ![p] =
                [name |-> loc[p].name, ids |-> BumpLogIds(data)]]
        /\ Goto(p, "log_read")
        /\ UNCHANGED <<log, now, notes, last, sums>>

\* update_access_log, lines 439-442.
ConcLogRead(p) ==
    /\ At(p, "log_read")
    /\ loc' = [loc EXCEPT ![p] = Put(@, "log", log)]
    /\ Goto(p, "log_write")
    /\ UNCHANGED <<docs, log, now, notes, last, sums>>

RECURSIVE CountBumps(_, _, _)
\* The increments an invocation applied, added to the tally.
CountBumps(tally, entity_name, fact_ids) ==
    IF fact_ids = <<>> THEN tally
    ELSE LET key == LogKey(entity_name, Head(fact_ids))
         IN  CountBumps(Put(tally, key, Get(tally, key, 0) + 1),
                        entity_name, Tail(fact_ids))

\* update_access_log, lines 444-452.
ConcLogWrite(p) ==
    /\ At(p, "log_write")
    /\ log' = update_access_log(loc[p].log, loc[p].name, loc[p].ids, now)
    /\ last' = [last EXCEPT !.bumps = CountBumps(@, loc[p].name, loc[p].ids)]
    /\ Return(p)
    /\ UNCHANGED <<docs, now, notes, sums>>

\* record_access, line 60.
ConcRecordStart(p, entity_id, fact_id) ==
    /\ Start(p)
    /\ loc' = [loc EXCEPT ![p] =
            [name |-> entity_id, ids |-> <<fact_id>>, log |-> log]]
    /\ Goto(p, "record_write")
    /\ UNCHANGED <<docs, log, now, notes, last, sums>>

\* record_access, lines 61-69.
ConcRecordWrite(p) ==
    /\ At(p, "record_write")
    /\ log' = record_access(loc[p].log, loc[p].name, loc[p].ids[1], now)
    /\ last' = [last EXCEPT !.bumps = CountBumps(@, loc[p].name, loc[p].ids)]
    /\ Return(p)
    /\ UNCHANGED <<docs, now, notes, sums>>

\* A decay cycle reaches update_entity_facts for a directory its glob
\* listed: lines 107-110, the existence test and load_access_log.
ConcDecayStart(p, path) ==
    /\ Start(p)
    /\ Exists(docs, path) /\ Enumerated(path)
    /\ loc' = [loc EXCEPT ![p] = [path |-> path, log |-> log]]
    /\ Goto(p, "decay_read")
    /\ UNCHANGED <<docs, log, now, notes, last, sums>>

\* update_entity_facts, lines 113-114.
ConcDecayRead(p) ==
    /\ At(p, "decay_read")
    /\ loc' = [loc EXCEPT ![p] = Put(@, "data", docs[loc[p].path])]
    /\ Goto(p, "decay_write")
    /\ UNCHANGED <<docs, log, now, notes, last, sums>>

\* update_entity_facts, lines 116-141: the write-back; the active facts are
\* returned to the cycle.
ConcDecayWrite(p) ==
    LET data == HydrateData(loc[p].data, loc[p].log, PathName(loc[p].path))
    IN  /\ At(p, "decay_write")
        /\ docs' = [docs EXCEPT ![loc[p].path] = data]
        /\ loc' = [loc EXCEPT ![p] =
                [path |-> loc[p].path, active_facts |-> ActiveFacts(data.facts)]]
        /\ Goto(p, "summary_read")
        /\ UNCHANGED <<log, now, notes, last, sums>>

\* regenerate_summary, lines 160-162: facts.json is read again.
ConcSummaryRead(p) ==
    /\ At(p, "summary_read")
    /\ loc' = [loc EXCEPT ![p] = Put(@, "data", docs[loc[p].path])]
    /\ Goto(p, "summary_write")
    /\ UNCHANGED <<docs, log, now, notes, last, sums>>

\* regenerate_summary, lines 169-224.
ConcSummaryWrite(p) ==
    /\ At(p, "summary_write")
    /\ sums' = Put(sums, loc[p].path,
                   SummaryOf(loc[p].path, loc[p].data, loc[p].active_facts,
                             RelatedOf(loc[p].active_facts), now))
    /\ Return(p)
    /\ UNCHANGED <<docs, log, now, notes, last>>

\* update_entity_cross_references for one related path: lines 367-383.
ConcCrossRefStart(p, entity_type, entity_name, rel_path) ==
    LET ref_path == RefPath(rel_path)
    IN  /\ Start(p)
        /\ IF ref_path # <<>> /\ Exists(docs, ref_path)
           THEN /\ loc' = [loc EXCEPT ![p] =
                        [path |-> ref_path,
                         back_ref |-> BackRef(entity_type, entity_name)]]
                /\ Goto(p, "crossref_read")
           ELSE /\ loc' = [loc EXCEPT ![p] = [op |-> "none"]]
                /\ UNCHANGED pc
        /\ UNCHANGED <<docs, log, now, notes, last, sums>>

\* update_entity_cross_references, lines 384-385.
ConcCrossRefRead(p) ==
    /\ At(p, "crossref_read")
    /\ loc' = [loc EXCEPT ![p] = Put(@, "data", docs[loc[p].path])]
    /\ Goto(p, "crossref_write")
    /\ UNCHANGED <<docs, log, now, notes, last, sums>>

\* update_entity_cross_references, lines 387-400.
ConcCrossRefWrite(p) ==
    /\ At(p, "crossref_write")
    /\ docs' = [docs EXCEPT ![loc[p].path] = CrossRefData(loc[p].data, loc[p].back_ref)]
    /\ Return(p)
    /\ UNCHANGED <<log, now, notes, last, sums>>

NextConc ==
    \E p \in Procs :
        \/ \E e \in EntityInputs, fact \in FactInputs :
                \E supersedes_id \in {None} \cup IdInputs(e[2]) :
                    ConcAppendStart(p, e[1], e[2], fact, supersedes_id)
        \/ ConcCreateTest(p)
        \/ ConcCreateWrite(p)
        \/ ConcAppendRead(p)
        \/ ConcAppendWrite(p)
        \/ \E e \in EntityInputs :
                \E fact_ids \in {AllFacts} \cup {TheseFacts({id}) : id \in IdInputs(e[2])} :
                    ConcBumpStart(p, e[1], e[2], fact_ids)
        \/ ConcBumpRead(p)
        \/ ConcBumpWrite(p)
        \/ ConcLogRead(p)
        \/ ConcLogWrite(p)
        \/ \E e \in EntityInputs : \E fact_id \in IdInputs(e[2]) :
                ConcRecordStart(p, Slug(e[2]), fact_id)
        \/ ConcRecordWrite(p)
        \/ \E path \in DOMAIN docs : ConcDecayStart(p, path)
        \/ ConcDecayRead(p)
        \/ ConcDecayWrite(p)
        \/ ConcSummaryRead(p)
        \/ ConcSummaryWrite(p)
        \/ \E e \in SourceInputs, rel_path \in RelatedPaths :
                ConcCrossRefStart(p, e[1], e[2], rel_path)
        \/ ConcCrossRefRead(p)
        \/ ConcCrossRefWrite(p)

SpecConc == InitConc /\ [][NextConc]_vars

-----------------------------------------------------------------------------
(* The properties. *)

\* The facts that fact i of `facts` was appended to replace: the index of the
\* earlier fact whose id is the supersedes_id of fact i, 0 when there is none.
Pred(facts, i) ==
    LET hits == {j \in 1..(i - 1) : facts[j].id = facts[i].supersedes}
    IN  IF hits = {} THEN 0 ELSE CHOOSE j \in hits : \A k \in hits : j <= k

RECURSIVE Root(_, _)
\* The fact a supersession chain starts from.
Root(facts, i) == IF Pred(facts, i) = 0 THEN i ELSE Root(facts, Pred(facts, i))

\* The chain of the fact at r: r and every fact appended with a supersedes_id
\* that names r or a member of the chain.
Chain(facts, r) == {i \in 1..Len(facts) : Root(facts, i) = r}

Active(facts) == {i \in 1..Len(facts) : facts[i].status = "active"}

\* C1: in every document every fact has status = superseded exactly when its
\* supersededBy is set, and a supersededBy that is set is the id of the fact
\* that replaced it (a later fact appended to supersede this one); so a newly
\* appended fact is active with supersededBy = null.
C1_SupersededIffSupersededBy ==
    \A path \in DOMAIN docs :
        LET facts == docs[path].facts
        IN  \A i \in 1..Len(facts) :
                /\ (facts[i].status = "superseded") <=> (facts[i].supersededBy # None)
                /\ facts[i].supersededBy # None =>
                        \E j \in (i + 1)..Len(facts) :
                            /\ facts[j].id = facts[i].supersededBy
                            /\ facts[j].supersedes = facts[i].id

\* C2: every supersession chain of every document holds exactly one active
\* fact, the one appended last; also when a supersedes_id named a fact that
\* was superseded already.
C2_OneActivePerChain ==
    \A path \in DOMAIN docs :
        LET facts == docs[path].facts
        IN  \A r \in 1..Len(facts) :
                Root(facts, r) = r =>
                    LET chain == Chain(facts, r)
                        newest == CHOOSE i \in chain : \A j \in chain : j <= i
                    IN  Active(facts) \cap chain = {newest}

AllIdle == \A p \in Procs : pc[p] = "idle"

\* C3: concurrent read-modify-writes of a document lose no update: once the
\* invocations have returned, every content that append_fact_to_entity
\* reported as added is in the document.
C3_NoLostUpdate ==
    AllIdle =>
        \A content \in last.added :
            \E path \in DOMAIN docs :
                \E i \in 1..Len(docs[path].facts) : docs[path].facts[i].fact = content

\* C4: concurrent bumps of the access log lose no increment: once the
\* invocations have returned, the accessCount of every key is the number of
\* bumps the invocations applied to it.
C4_NoLostIncrement ==
    AllIdle =>
        \A key \in DOMAIN last.bumps :
            key \in DOMAIN log /\ log[key].accessCount = last.bumps[key]

HasContent(fs, path, content) ==
    /\ path \in DOMAIN fs
    /\ \E i \in 1..Len(fs[path].facts) : fs[path].facts[i].fact = content

\* C5: an append whose content equals the content of a fact of the document,
\* active or superseded, returns None and leaves the document as it was:
\* the facts, their status and supersededBy (also with a supersedes_id) and
\* lastUpdated.
C5_DuplicateLeavesDocument ==
    [][last'.op = "append" =>
         \A e \in EntityInputs, fact \in FactInputs :
            HasContent(docs, entity_path_for(e[1], Slug(e[2])), fact.content) =>
                \A supersedes_id \in {None} \cup IdInputs(e[2]) :
                    (/\ last'.supersedes_id = supersedes_id
                     /\ AppendFact(e[1], e[2], fact, supersedes_id))
                        => (last'.ret = None /\ docs' = docs)]_vars

\* A duplicate append that named an active fact of the document to supersede.
C5_DuplicateWithSupersedes ==
    /\ last.op = "append"
    /\ last.ret = None
    /\ \E path \in DOMAIN docs :
        \E i \in 1..Len(docs[path].facts) :
            /\ docs[path].facts[i].id = last.supersedes_id
            /\ docs[path].facts[i].status = "active"

Digit(n) == SubSeq(Digits, n + 1, n + 1)

\* <first three characters of the slug>-<k in three digits>
ExpectedId(slug, k) ==
    SubSeq(slug, 1, Min(3, Len(slug))) \o "-"
        \o Digit((k \div 100) % 10) \o Digit((k \div 10) % 10) \o Digit(k % 10)

ExpectedIds == [n \in Names, k \in 1..(MaxSteps + MaxConcOps + 2) |-> ExpectedId(n, k)]

IdsInOrder ==
    \A path \in DOMAIN docs :
        \A k \in 1..Len(docs[path].facts) :
            docs[path].facts[k].id = ExpectedIds[PathName(path), k]

IdsDistinct ==
    \A path \in DOMAIN docs :
        \A i, j \in 1..Len(docs[path].facts) :
            i # j => docs[path].facts[i].id # docs[path].facts[j].id

IdsKept ==
    \A path \in DOMAIN docs :
        /\ path \in DOMAIN docs'
        /\ \A i \in 1..Len(docs[path].facts) :
            /\ i <= Len(docs'[path].facts)
            /\ docs'[path].facts[i].id = docs[path].facts[i].id

\* C6: the ids of a document are pairwise distinct, an id never changes, and
\* the k-th fact carries <first three characters of the slug>-<k in three
\* digits>.
C6_IdsFollowAppendOrder == [](IdsInOrder /\ IdsDistinct) /\ [][IdsKept]_vars

\* A document of three facts, the third appended after a fact was superseded.
C6_ThreeFactsNumbered ==
    \E path \in DOMAIN docs :
        /\ Len(docs[path].facts) = 3
        /\ docs[path].facts[3].id = "acm-003"
        /\ \E i \in 1..2 : docs[path].facts[i].status = "superseded"


\* C7: no operation of a sequential run removes a fact: the facts of a
\* document after a step extend, by id and content, the facts before it.
C7_FactsNeverRemoved ==
    [][\A path \in DOMAIN docs :
         /\ path \in DOMAIN docs'
         /\ LET old == docs[path].facts
                new == docs'[path].facts
            IN  /\ Len(new) >= Len(old)
                /\ \A i \in 1..Len(old) :
                    new[i].id = old[i].id /\ new[i].fact = old[i].fact]_vars

\* A superseded fact that a decay cycle hydrated (no operation but the
\* hydration without a log entry gives accessCount 0) is in the document
\* next to the fact that replaced it.
C7_SupersededFactKept ==
    \E path \in DOMAIN docs :
        \E i \in 1..Len(docs[path].facts) :
            LET f == docs[path].facts[i]
            IN  /\ f.status = "superseded"
                /\ "accessCount" \in DOMAIN f
                /\ f.accessCount = 0
                /\ Len(docs[path].facts) > i

\* The statistics of `new` are those of `old` or later ones.
StatsKept(old, new) ==
    /\ "accessCount" \in DOMAIN old =>
            "accessCount" \in DOMAIN new /\ new.accessCount >= old.accessCount
    /\ "lastAccessed" \in DOMAIN old =>
            "lastAccessed" \in DOMAIN new /\ new.lastAccessed >= old.lastAccessed

\* C8: in a sequential run whose clock does not go back, no step lowers the
\* accessCount of a fact or moves its lastAccessed back, and the same holds
\* of every entry of the access log.
C8_StatsNeverGoBack ==
    [][now' >= now =>
         /\ \A path \in DOMAIN docs :
                /\ path \in DOMAIN docs'
                /\ \A i \in 1..Len(docs[path].facts) :
                    /\ i <= Len(docs'[path].facts)
                    /\ StatsKept(docs[path].facts[i], docs'[path].facts[i])
         /\ \A key \in DOMAIN log :
                key \in DOMAIN log' /\ StatsKept(log[key], log'[key])]_vars

\* A fact and its log entry were bumped on a later day than the fact was
\* appended, and a decay cycle ran over them since.
C8_BumpedThenDecayed ==
    /\ last.op \in {"decay", "quick"}
    /\ \E path \in DOMAIN docs :
        \E i \in 1..Len(docs[path].facts) :
            LET f == docs[path].facts[i]
                key == LogKey(PathName(path), f.id)
            IN  /\ "accessCount" \in DOMAIN f
                /\ f.accessCount >= 2
                /\ f.lastAccessed >= 1
                /\ key \in DOMAIN log
                /\ log[key].accessCount < f.accessCount

\* C9: marking the superseded fact and inserting the new one reach the file
\* in one write: no state of a document holds a fact appended to supersede
\* an earlier active fact while that fact is still active, nor a superseded
\* fact without the fact that replaced it.
C9_SupersedeAndInsertTogether ==
    \A path \in DOMAIN docs :
        LET facts == docs[path].facts
        IN  \A i \in 1..Len(facts) :
                /\ \A j \in (i + 1)..Len(facts) :
                        facts[j].supersedes = facts[i].id =>
                            facts[i].status = "superseded"
                /\ facts[i].status = "superseded" =>
                        \E j \in (i + 1)..Len(facts) :
                            /\ facts[j].id = facts[i].supersededBy
                            /\ facts[j].supersedes = facts[i].id

\* A fact was superseded while another invocation holds a copy of the
\* document it read before.
C9_SupersededUnderObserver ==
    \E path \in DOMAIN docs :
        /\ \E i \in 1..Len(docs[path].facts) : docs[path].facts[i].status = "superseded"
        /\ \E p \in Procs :
            /\ "data" \in DOMAIN loc[p]
            /\ loc[p].path = path
            /\ loc[p].data # docs[path]

\* C10: bump_access_metadata advances accessCount by one and sets
\* lastAccessed to today for exactly the facts named by fact_ids (all facts
\* when fact_ids is None), returns their number, and applies the same bump to
\* the access log for exactly those facts: the log entries of the other
\* facts of the entity stay as they were.
C10_BumpExactlyFactIds ==
    [][\A e \in EntityInputs :
         \A fact_ids \in {AllFacts} \cup {TheseFacts({id}) : id \in IdInputs(e[2])} :
            LET path == entity_path_for(e[1], Slug(e[2]))
            IN  (/\ last'.op = "bump"
                 /\ path \in DOMAIN docs
                 /\ BumpAccess(e[1], e[2], fact_ids)) =>
                    LET old == docs[path].facts
                        new == docs'[path].facts
                        Hit(i) == ~fact_ids.given \/ old[i].id \in fact_ids.ids
                    IN  /\ Len(new) = Len(old)
                        /\ last'.ret = Cardinality({i \in 1..Len(old) : Hit(i)})
                        /\ \A i \in 1..Len(old) :
                            LET key == LogKey(Slug(e[2]), old[i].id)
                                before == IF key \in DOMAIN log
                                          THEN log[key].accessCount ELSE 0
                            IN  IF Hit(i)
                                THEN /\ new[i].accessCount = Get(old[i], "accessCount", 0) + 1
                                     /\ new[i].lastAccessed = now
                                     /\ key \in DOMAIN log'
                                     /\ log'[key].accessCount = before + 1
                                     /\ log'[key].lastAccessed = now
                                ELSE /\ new[i] = old[i]
                                     /\ (key \in DOMAIN log') = (key \in DOMAIN log)
                                     /\ key \in DOMAIN log => log'[key] = log[key]]_vars


\* The directory a related path names, component by component.
TargetDir == [r \in RelatedPaths |-> Split(r, "/")]

\* The directories of the four collections.
IsEntityDir(path) ==
    \/ Len(path) = 3 /\ path[1] = "areas" /\ path[2] \in {"people", "companies"}
    \/ Len(path) = 2 /\ path[1] \in {"projects", "resources"}

\* C11: after a propagation, every active fact of every target that names
\* an existing document of one of the four collections (areas/people,
\* areas/companies, projects, resources) holds the back reference to the
\* source entity in its relatedEntities.
C11_BackReferenceInEveryTarget ==
    [][last'.op = "crossref" =>
         \A e \in XrefEntities :
            CrossReference(e[1], e[2], last'.related_entities) =>
                \A i \in 1..Len(last'.related_entities) :
                    LET path == TargetDir[last'.related_entities[i]]
                    IN  (IsEntityDir(path) /\ path \in DOMAIN docs) =>
                            \A k \in 1..Len(docs'[path].facts) :
                                docs'[path].facts[k].status = "active" =>
                                    InSeq(BackRef(e[1], e[2]),
                                          docs'[path].facts[k].relatedEntities)]_vars

\* The number of times x occurs in the sequence s.
Count(x, s) == Cardinality({i \in 1..Len(s) : s[i] = x})

\* C12: propagating the same cross references once more changes no
\* document, and no propagation makes a path occur a second time in the
\* relatedEntities of a fact.
C12_PropagationIdempotent ==
    [][last'.op = "crossref" =>
         \A e \in XrefEntities :
            CrossReference(e[1], e[2], last'.related_entities) =>
                /\ update_entity_cross_references(docs', e[1], e[2],
                                                  last'.related_entities) = docs'
                /\ \A path \in DOMAIN docs' :
                    \A k \in 1..Len(docs'[path].facts) :
                        LET new == docs'[path].facts[k].relatedEntities
                            old == docs[path].facts[k].relatedEntities
                        IN  \A j \in 1..Len(new) :
                                Count(new[j], new) <= 1 \/ Count(new[j], new) = Count(new[j], old)]_vars

\* A propagation found its back reference in every active fact of its
\* targets already (no fact carries related entities of its own here, so an
\* earlier propagation put it there) and changed nothing.
C12_PropagatedTwice ==
    /\ last.op = "crossref"
    /\ ~last.changed
    /\ \E i \in 1..Len(last.related_entities) :
        LET path == TargetDir[last.related_entities[i]]
        IN  /\ path \in DOMAIN docs
            /\ \E k \in 1..Len(docs[path].facts) :
                /\ docs[path].facts[k].status = "active"
                /\ docs[path].facts[k].relatedEntities # <<>>

\* C13: a propagation creates no document and no summary and changes no
\* document but those its targets name; a target that names no existing
\* document is passed over and the targets after it are still served.
C13_UnresolvedTargetIgnored ==
    [][last'.op = "crossref" =>
         \A e \in XrefEntities :
            CrossReference(e[1], e[2], last'.related_entities) =>
                LET related == last'.related_entities
                    targets == {TargetDir[related[i]] : i \in 1..Len(related)}
                IN  /\ DOMAIN docs' = DOMAIN docs
                    /\ sums' = sums /\ log' = log
                    /\ \A path \in DOMAIN docs \ targets : docs'[path] = docs[path]
                    /\ \A i \in 1..Len(related) :
                        LET path == TargetDir[related[i]]
                        IN  (path[1] = "areas" /\ path \in DOMAIN docs) =>
                                \A k \in 1..Len(docs'[path].facts) :
                                    docs'[path].facts[k].status = "active" =>
                                        InSeq(BackRef(e[1], e[2]),
                                              docs'[path].facts[k].relatedEntities)]_vars

\* A propagation whose first target names no document changed the document
\* of its second target.
C13_ServedAfterUnresolved ==
    /\ last.op = "crossref"
    /\ last.changed
    /\ Len(last.related_entities) = 2
    /\ TargetDir[last.related_entities[1]] \notin DOMAIN docs
    /\ TargetDir[last.related_entities[2]] \in DOMAIN docs


\* C14: an append to an entity without a document creates the document and
\* puts the fact in it; after any append that returns a fact, loading the
\* active facts of the entity (update_entity_facts) returns a fact with the
\* id, the content and the category of the fact returned.
C14_AppendLoadRoundTrip ==
    [][(last'.op = "append" /\ last'.ret # None) =>
         \A e \in XrefEntities, fact \in XrefFacts :
            AppendFact(e[1], e[2], fact, last'.supersedes_id) =>
                LET path == entity_path_for(e[1], Slug(e[2]))
                    r == append_fact_to_entity(docs, e[1], e[2], fact,
                                               last'.supersedes_id, now)
                    loaded == ActiveFacts(HydrateData(docs'[path], log',
                                                      PathName(path)).facts)
                IN  /\ path \in DOMAIN docs'
                    /\ path \notin DOMAIN docs =>
                            /\ path \in DOMAIN sums'
                            /\ docs'[path].entity = Slug(e[2])
                            /\ docs'[path].facts = r.ret
                    /\ r.ret[1].fact = fact.content
                    /\ r.ret[1].category = fact.category
                    /\ \E i \in 1..Len(loaded) :
                            /\ loaded[i].id = r.ret[1].id
                            /\ loaded[i].fact = r.ret[1].fact
                            /\ loaded[i].category = r.ret[1].category]_vars

\* A fact was appended in place of the first fact of an existing document,
\* and is the one active fact beside the superseded one.
C14_AppendedToReplace ==
    /\ last.op = "append"
    /\ last.ret # None
    /\ last.supersedes_id # None
    /\ \E path \in DOMAIN docs :
        /\ Len(docs[path].facts) >= 2
        /\ docs[path].facts[1].status = "superseded"
        /\ docs[path].facts[Len(docs[path].facts)].id = last.ret


\* The positions of the facts of a document with the given status.
WithStatus(facts, status) ==
    {i \in 1..Len(facts) : Get(facts[i], "status", None) = status}

\* The related entities of the facts at the positions in `at`.
RelatedAt(facts, at) ==
    UNION {{facts[i].relatedEntities[j] : j \in 1..Len(facts[i].relatedEntities)} :
            i \in at}

\* C15: a load (update_entity_facts, here in a cycle that ran to its end)
\* gives every fact without statistics of its own those of the ledger
\* entry entity:id if there is one, else lastAccessed = the document's
\* created and accessCount = 0, and writes them to the document; it leaves
\* a fact that carries statistics as it is; a second load changes nothing,
\* whatever the ledger holds by then; and what it returns (and the summary
\* is built from) are the active facts and the union of their
\* relatedEntities.
C15_LoadHydratesOnce ==
    [][(last'.op = "decay" /\ ~last'.aborted) =>
         \A path \in DOMAIN docs :
            LET old == docs[path].facts
                new == docs'[path].facts
                name == PathName(path)
                loaded == ActiveFacts(HydrateData(docs[path], log, name).facts)
                active == WithStatus(new, "active")
            IN  /\ Len(new) = Len(old)
                /\ \A i \in 1..Len(old) :
                    LET key == LogKey(name, old[i].id)
                    IN  IF "lastAccessed" \in DOMAIN old[i]
                        THEN new[i] = old[i]
                        ELSE /\ \A k \in DOMAIN old[i] : new[i][k] = old[i][k]
                             /\ IF key \in DOMAIN log
                                THEN /\ new[i].lastAccessed = log[key].lastAccessed
                                     /\ new[i].accessCount = log[key].accessCount
                                ELSE /\ new[i].lastAccessed = docs[path].created
                                     /\ new[i].accessCount = 0
                /\ \A lg \in {log', NoFiles}
                        \cup {record_access(log', name, new[i].id, now + 1) :
                                i \in 1..Len(new)} :
                        HydrateData(docs'[path], lg, name) = docs'[path]
                /\ {loaded[i] : i \in 1..Len(loaded)} = {new[i] : i \in active}
                /\ Len(loaded) = Cardinality(active)
                /\ RelatedOf(loaded) = RelatedAt(new, active)
                /\ sums'[path].related = RelatedAt(new, active)
                /\ Len(sums'[path].hot) + Len(sums'[path].warm) + sums'[path].cold
                        = Cardinality(active)]_vars

\* A cycle gave the fact of the older document, which carried no
\* statistics, those of its ledger entry.
C15_HydratedFromLedger ==
    /\ last.op = "decay"
    /\ last.changed
    /\ ~last.aborted
    /\ LogKey("acme-co", "acm-001") \in DOMAIN log
    /\ \E path \in DOMAIN docs :
        /\ PathName(path) = "acme-co"
        /\ docs[path].facts[1].accessCount = log[LogKey("acme-co", "acm-001")].accessCount

\* C16: a cycle that meets a malformed document still ends with its
\* counters, which count the documents it could read, and leaves every
\* other document's summary regenerated.
C16_MalformedDoesNotAbort ==
    [][last'.op = "decay" =>
         /\ ~last'.aborted
         /\ last'.processed = Cardinality({path \in DOMAIN docs : ~IsMalformed(docs[path])})
         /\ \A path \in DOMAIN docs :
                ~IsMalformed(docs[path]) =>
                    sums'[path] = SummaryOf(path, docs'[path],
                                            ActiveFacts(docs'[path].facts),
                                            RelatedOf(ActiveFacts(docs'[path].facts)),
                                            now)]_vars

\* C17: the entities a full cycle reports are those of the four collections
\* with more superseded facts than twice their active facts.
C17_FlagsEveryCollection ==
    (last.op = "decay" /\ ~last.aborted) =>
        last.flagged =
            {path \in DOMAIN docs :
                /\ IsEntityDir(path)
                /\ Cardinality(WithStatus(docs[path].facts, "superseded"))
                    > 2 * Cardinality(WithStatus(docs[path].facts, "active"))}

\* C19: a full cycle that follows a full cycle, on the same day and with
\* nothing done in between, leaves every document and every summary as the
\* first left them and reports the same counters.
C19_SecondCycleSame ==
    [][(last.op = "decay" /\ ~last.aborted /\ last'.op = "decay") =>
         /\ docs' = docs
         /\ sums' = sums
         /\ log' = log
         /\ ~last'.aborted
         /\ last'.processed = last.processed
         /\ last'.summarized = last.summarized]_vars

\* Two cycles in a row on day 0: the first gave the older document its
\* statistics, the second found nothing to change.
C19_TwoCyclesOneDay ==
    /\ ops = 2
    /\ now = 0
    /\ last.op = "decay"
    /\ ~last.aborted
    /\ ~last.changed
    /\ last.processed >= 2
    /\ last.summarized >= 1
    /\ \E path \in DOMAIN docs :
        /\ PathName(path) = "acme-co"
        /\ "lastAccessed" \in DOMAIN docs[path].facts[1]


\* The days since the last access the classifier works with: 100 for a date
\* that is missing or does not parse.
DaysSince ==
    IF last.last_accessed \in {Unknown, Missing} THEN 100
    ELSE now - last.last_accessed

\* C20: the tier is hot when accessCount >= highFreqThreshold, whatever the
\* age; otherwise hot when daysSince <= hotDays, warm when hotDays <
\* daysSince <= warmDays, cold beyond both; a missing or unparsable date
\* counts as daysSince = 100.
C20_TierRule ==
    last.op = "tier" =>
        LET c == last.config
            frequent == last.access_count >= c.high_freq_threshold
        IN  /\ frequent => last.tier = "hot"
            /\ (~frequent /\ DaysSince <= c.hot_days) => last.tier = "hot"
            /\ (~frequent /\ c.hot_days < DaysSince /\ DaysSince <= c.warm_days)
                    => last.tier = "warm"
            /\ (~frequent /\ DaysSince > c.hot_days /\ DaysSince > c.warm_days)
                    => last.tier = "cold"
            /\ last.tier \in {"hot", "warm", "cold"}

\* A fact last accessed 500 days ago with exactly highFreqThreshold accesses
\* was classified, under the default tiers.
C20_FrequentAndOld ==
    /\ last.op = "tier"
    /\ last.config.hot_days = 7
    /\ last.access_count = last.config.high_freq_threshold
    /\ now - last.last_accessed = 500
    /\ last.tier = "hot"


\* The reply holds no JSON object where parse_llm_response looks: it is not
\* one valid piece, and no valid {...} in it holds entity_facts or
\* new_entities or stands alone between two fences.
Unparsable(analysis) ==
    /\ ~(Len(analysis) = 1 /\ analysis[1].t \in {"braces", "literal"}
            /\ analysis[1].valid)
    /\ \A i \in 1..Len(analysis) :
        (analysis[i].t = "braces" /\ analysis[i].valid) =>
            /\ {"entity_facts", "new_entities"}
                    \cap DOMAIN analysis[i].value.members = {}
            /\ ~(/\ i > 1 /\ i < Len(analysis)
                 /\ analysis[i - 1].t = "fence" /\ analysis[i + 1].t = "fence")

\* The extraction gave no result object: the call timed out or failed, or
\* its reply is unparsable or is JSON that is no object.
ExtractionFailed(outcome) ==
    \/ outcome.kind \in {"timeout", "service_error"}
    \/ /\ outcome.kind = "text"
       /\ \/ Unparsable(outcome.analysis)
          \/ outcome.analysis = <<Literal>>

\* C18: a checkpoint whose extraction fails (timeout, error of the service,
\* unparsable reply) returns an error and writes nothing: documents,
\* ledger, summaries and daily notes are as before.
C18_FailedExtractionWritesNothing ==
    [][(last'.op = "checkpoint" /\ last'.has_context
            /\ ExtractionFailed(last'.outcome)) =>
         /\ last'.status = "error"
         /\ docs' = docs
         /\ log' = log
         /\ sums' = sums
         /\ notes' = notes]_vars

\* A checkpoint with an unparsable reply ended in an error after an earlier
\* checkpoint had written documents and a daily note.
C18_FailedAfterSuccess ==
    /\ last.op = "checkpoint"
    /\ last.status = "error"
    /\ last.outcome.kind = "text"
    /\ Unparsable(last.outcome.analysis)
    /\ DOMAIN docs # {}
    /\ notes # <<>>


\* C23: in every document, a fact's supersededBy is absent or names a fact
\* of the same document appended after it (so the links form no cycle and
\* none dangles), and a fact at the end of a chain, one without supersededBy,
\* is active.
C23_SupersededByPointsForward ==
    \A path \in DOMAIN docs :
        LET facts == docs[path].facts
        IN  \A i \in 1..Len(facts) :
                IF Truthy(Get(facts[i], "supersededBy", None))
                THEN \E j \in (i + 1)..Len(facts) :
                        Get(facts[j], "id", None) = facts[i].supersededBy
                ELSE Get(facts[i], "status", None) = "active"


\* C22: create_entity on an entity whose document exists leaves the document
\* as it is (facts, created, createdReason, lastUpdated); on one without a
\* document it writes a document with no facts, created = the day of the
\* call and createdReason = the reason given; it touches no other document,
\* and a second call, on a later day with another reason, changes nothing.
C22_CreateEntityIdempotent ==
    [][last'.op = "create" =>
         \A e \in EntityInputs :
            CreateEntity(e[1], e[2], last'.reason) =>
                LET path == entity_path_for(e[1], Slug(e[2]))
                IN  /\ DOMAIN docs' = DOMAIN docs \cup {path}
                    /\ \A other \in DOMAIN docs \ {path} : docs'[other] = docs[other]
                    /\ IF path \in DOMAIN docs
                       THEN docs'[path] = docs[path]
                       ELSE /\ docs'[path].facts = <<>>
                            /\ docs'[path].created = now
                            /\ docs'[path].createdReason = last'.reason
                    /\ create_entity(docs', e[1], e[2], AutoReason, now + 1) = docs']_vars

\* create_entity was called for an entity whose document held a fact and
\* another reason than the one given.
C22_CreatedOverFacts ==
    /\ last.op = "create"
    /\ last.existed
    /\ \E path \in DOMAIN docs :
        /\ docs[path].facts # <<>>
        /\ docs[path].createdReason # last.reason


\* C28: a full or a quick decay cycle leaves the access log as it is,
\* creates and removes no document, and changes a document only in facts
\* that carried no lastAccessed, by adding lastAccessed and accessCount to
\* them: every field a fact had (id, fact, category, status, supersededBy,
\* relatedEntities, statistics) keeps its value, the facts keep their number
\* and order, and the document's other fields (lastUpdated among them) keep
\* theirs.
C28_DecayFillsStatsOnly ==
    [][last'.op \in {"decay", "quick"} =>
         /\ log' = log
         /\ DOMAIN docs' = DOMAIN docs
         /\ \A path \in DOMAIN docs :
                LET old == docs[path]
                    new == docs'[path]
                IN  /\ DOMAIN new = DOMAIN old
                    /\ \A k \in DOMAIN old \ {"facts"} : new[k] = old[k]
                    /\ Len(new.facts) = Len(old.facts)
                    /\ \A i \in 1..Len(old.facts) :
                        LET f == old.facts[i]
                            g == new.facts[i]
                        IN  /\ \A k \in DOMAIN f : k \in DOMAIN g /\ g[k] = f[k]
                            /\ DOMAIN g \subseteq DOMAIN f \cup {"lastAccessed", "accessCount"}
                            /\ "lastAccessed" \in DOMAIN f => g = f]_vars

\* A quick cycle changed a document that held a fact with statistics of its
\* own beside the one it filled in, while the access log had entries.
C28_QuickCycleFilledIn ==
    /\ last.op = "quick"
    /\ last.changed
    /\ DOMAIN log # {}
    /\ \E path \in DOMAIN docs :
        /\ Len(docs[path].facts) >= 2
        /\ docs[path].facts[2].accessCount >= 1


\* What a propagation may do to the documents: it creates and removes none,
\* leaves the access log alone, changes only documents its targets resolve
\* to, and in those only the relatedEntities of active facts, to which it
\* appends the back reference.
PropagationKeeps(back_ref, related) ==
    LET resolved == {RefPath(related[i]) : i \in 1..Len(related)}
    IN  /\ log' = log
        /\ DOMAIN docs' = DOMAIN docs
        /\ \A path \in DOMAIN docs \ resolved : docs'[path] = docs[path]
        /\ \A path \in DOMAIN docs :
            LET old == docs[path]
                new == docs'[path]
            IN  /\ DOMAIN new = DOMAIN old
                /\ \A k \in DOMAIN old \ {"facts"} : new[k] = old[k]
                /\ Len(new.facts) = Len(old.facts)
                /\ \A i \in 1..Len(old.facts) :
                    LET f == old.facts[i]
                        g == new.facts[i]
                    IN  /\ DOMAIN g = DOMAIN f
                        /\ \A k \in DOMAIN f \ {"relatedEntities"} : g[k] = f[k]
                        /\ f.status # "active" => g = f
                        /\ g.relatedEntities \in
                                {f.relatedEntities, Append(f.relatedEntities, back_ref)}

\* C27 as stated: a propagation keeps to PropagationKeeps and never changes
\* the document of the source entity.
C27_SourceNeverModified ==
    [][last'.op = "crossref" =>
         \A e \in XrefEntities :
            CrossReference(e[1], e[2], last'.related_entities) =>
                LET source == entity_path_for(e[1], Slug(e[2]))
                IN  /\ PropagationKeeps(BackRef(e[1], e[2]), last'.related_entities)
                    /\ source \in DOMAIN docs => docs'[source] = docs[source]]_vars

\* C27 as amended: a propagation keeps to PropagationKeeps, and changes the
\* document of the source entity only when a target resolves to it.
C27_OnlyTargetsModified ==
    [][last'.op = "crossref" =>
         \A e \in XrefEntities :
            CrossReference(e[1], e[2], last'.related_entities) =>
                LET source == entity_path_for(e[1], Slug(e[2]))
                    related == last'.related_entities
                IN  /\ PropagationKeeps(BackRef(e[1], e[2]), related)
                    /\ (source \in DOMAIN docs
                            /\ \A i \in 1..Len(related) : RefPath(related[i]) # source)
                        => docs'[source] = docs[source]]_vars

\* A propagation changed a document that holds a superseded fact before an
\* active one: the active fact has the back reference, the superseded fact
\* has none.
C27_ActiveFactLinkedOnly ==
    /\ last.op = "crossref"
    /\ last.changed
    /\ \E i \in 1..Len(last.related_entities) :
        LET path == RefPath(last.related_entities[i])
        IN  /\ path \in DOMAIN docs
            /\ Len(docs[path].facts) >= 2
            /\ docs[path].facts[1].status = "superseded"
            /\ docs[path].facts[1].relatedEntities = <<>>
            /\ docs[path].facts[2].status = "active"
            /\ docs[path].facts[2].relatedEntities # <<>>


\* The entity_facts of the object a reply was parsed to, <<>> when there is
\* none.
Extracted(outcome) ==
    IF outcome.kind # "text" THEN <<>>
    ELSE LET result == parse_llm_response(outcome.analysis)
         IN  IF result.raised \/ result.value.type # "object" THEN <<>>
             ELSE Get(result.value.members, "entity_facts", <<>>)

\* The content of the extracted fact ef is that of a fact in the document of
\* its entity.
KnownContent(fs, ef) ==
    LET path == entity_path_for(ef.entity_type, Slug(ef.entity_name))
    IN  /\ path \in DOMAIN fs
        /\ \E k \in 1..Len(fs[path].facts) : fs[path].facts[k].fact = ef.fact.content

\* C25: a checkpoint in which every extracted fact is rejected as a
\* duplicate (each content is in its entity's document already) changes no
\* fact document: not those of the facts' entities, not those of the
\* entities their relatedEntities name.
C25_DuplicateChangesNoDocument ==
    [][(/\ last'.op = "checkpoint"
        /\ last'.status = "success"
        /\ Extracted(last'.outcome) # <<>>
        /\ \A i \in 1..Len(Extracted(last'.outcome)) :
                KnownContent(docs, Extracted(last'.outcome)[i]))
            => (last'.stats.facts_added = 0 /\ docs' = docs)]_vars


\* The related entities a summary.md lists under Connected To; the summary
\* create_entity writes has no such section.
Connected(summary) == IF summary.kind = "summary" THEN summary.related ELSE {}

\* C26: after a checkpoint that ends in success, every entity whose document
\* the run created or changed, a target of a back reference included, has a
\* summary whose Connected To section lists the relatedEntities of the
\* active facts of its document as the run left it (no section when there
\* are none).
C26_ModifiedEntitiesRegenerated ==
    [][(last'.op = "checkpoint" /\ last'.status = "success") =>
         \A path \in DOMAIN docs' :
            (path \notin DOMAIN docs \/ docs'[path] # docs[path]) =>
                /\ path \in DOMAIN sums'
                /\ Connected(sums'[path]) =
                        RelatedAt(docs'[path].facts,
                                  WithStatus(docs'[path].facts, "active"))]_vars


\* C24: the summary a checkpoint leaves for an entity its reply names is the
\* summary the decay cycle's renderer (update_entity_facts, then
\* regenerate_summary) writes for the same document on the same day under
\* the configured tiers.
C24_RenderersAgree ==
    [][(last'.op = "checkpoint" /\ last'.status = "success") =>
         \A i \in 1..Len(Extracted(last'.outcome)) :
            LET ef == Extracted(last'.outcome)[i]
                path == entity_path_for(ef.entity_type, Slug(ef.entity_name))
                data == HydrateData(docs'[path], log', PathName(path))
                active_facts == ActiveFacts(data.facts)
            IN  sums'[path] = SummaryOf(path, data, active_facts,
                                        RelatedOf(active_facts), now)]_vars


\* The positions, in the order of the document, of the active facts of
\* `data` that categorize_fact puts in `tier` on the day `today`.
ActiveInTier(data, tier, today) ==
    SelectSeq([i \in 1..Len(data.facts) |-> i],
              LAMBDA i : /\ data.facts[i].status = "active"
                         /\ categorize_fact(CONFIG, data.facts[i].lastAccessed,
                                            data.facts[i].accessCount, today) = tier)

\* The lines of the given kind.
LinesOf(lines, kind) == {k \in 1..Len(lines) : lines[k].t = kind}

RECURSIVE ListedIn(_, _, _)
\* The number of hot and warm active facts in the documents at `paths`.
ListedIn(fs, paths, today) ==
    IF paths = {} THEN 0
    ELSE LET path == CHOOSE p \in paths : TRUE
         IN  Len(ActiveInTier(fs[path], "hot", today))
                + Len(ActiveInTier(fs[path], "warm", today))
                + ListedIn(fs, paths \ {path}, today)

\* C21: in the summary a decay cycle writes, the Hot section holds the hot
\* active facts and the Warm section the warm ones, each fact once and in
\* the order of the document; a section is there only when it has a fact;
\* no other fact is listed (none that is cold, none that is superseded); the
\* cold active facts are counted in one line, which is there only when there
\* are any; and the count a full cycle reports is the number of facts listed.
C21_SummaryListsTiers ==
    [][(last'.op \in {"decay", "quick"} /\ (last'.op = "decay" => ~last'.aborted)) =>
         /\ \A path \in DOMAIN docs' :
                LET lines == SummaryLines(sums'[path])
                    data == docs'[path]
                    cold == Len(ActiveInTier(data, "cold", now))
                IN  /\ \A tier \in {"hot", "warm"} :
                        LET at == ActiveInTier(data, tier, now)
                            heads == {k \in 1..Len(lines) :
                                        lines[k] = [t |-> "heading", section |-> tier]}
                        IN  IF at = <<>> THEN heads = {}
                            ELSE /\ Cardinality(heads) = 1
                                 /\ \A h \in heads :
                                        /\ h + Len(at) + 1 <= Len(lines)
                                        /\ \A j \in 1..Len(at) :
                                            /\ lines[h + j].t = "fact"
                                            /\ lines[h + j].fact = data.facts[at[j]].fact
                                            /\ lines[h + j].category = data.facts[at[j]].category
                                        /\ lines[h + Len(at) + 1].t = "blank"
                    /\ Cardinality(LinesOf(lines, "fact")) =
                            Len(ActiveInTier(data, "hot", now))
                                + Len(ActiveInTier(data, "warm", now))
                    /\ IF cold = 0 THEN LinesOf(lines, "cold") = {}
                       ELSE /\ Cardinality(LinesOf(lines, "cold")) = 1
                            /\ \A k \in LinesOf(lines, "cold") : lines[k].count = cold
         /\ last'.op = "decay" =>
                last'.summarized = ListedIn(docs', DOMAIN docs', now)]_vars

\* A full cycle wrote the summary of a document whose first fact is
\* superseded, whose second is active and cold and whose third is hot: one
\* fact is listed, one is counted.
C21_HotListedColdCounted ==
    /\ last.op = "decay"
    /\ ~last.aborted
    /\ \E path \in DOMAIN docs :
        /\ Len(docs[path].facts) = 3
        /\ docs[path].facts[1].status = "superseded"
        /\ docs[path].facts[2].status = "active"
        /\ sums[path].kind = "summary"
        /\ Len(sums[path].hot) = 1
        /\ sums[path].hot[1].fact = docs[path].facts[3].fact
        /\ sums[path].warm = <<>>
        /\ sums[path].cold = 1

=============================================================================
